---- MODULE Spec2Model ----
(***************************************************************************)
(* Task Synchronization & Session Client of ai-platform/frontend/app.js:   *)
(* the credential store, the request client with its single-flight        *)
(* refresh, the poll scheduler, the push channel and the terminal          *)
(* handling that merges both channels.                                     *)
(*                                                                         *)
(* JavaScript runs one handler at a time and suspends only at an await of  *)
(* a network call, so every action below is one run of a handler from one  *)
(* suspension point to the next, continuations of an awaited promise       *)
(* (microtasks) included.                                                  *)
(***************************************************************************)
EXTENDS Integers, Sequences, FiniteSets, Bags, TLC

VARIABLES
    \* ---- CredentialStore and RequestClient
    authMode,               \* runtimeConfig.authMode
    inMemoryAccessToken,    \* let inMemoryAccessToken
    lsAccess,               \* localStorage[ACCESS_TOKEN_STORAGE_KEY]
    lsRefresh,              \* localStorage[REFRESH_TOKEN_STORAGE_KEY]
    lsApiKey,               \* localStorage[API_KEY_STORAGE_KEY]
    storageBlocked,         \* the browser refuses window.localStorage (SecurityError)
    refreshPromise,         \* let refreshPromise: 0 (null) or the operation stored
    refreshOps,             \* refresh operations whose network call is in flight
    req,                    \* the apiFetch invocations
    refreshCalls,           \* network calls issued to /auth/refresh (history)
    storeLog,               \* the last credential operations of the user (history)
    \* ---- PollScheduler, PushChannel, SyncCoordinator
    pollStartTime,          \* let pollStartTime: "null", "fresh" or "expired"
    pollingIntervals,       \* let pollingIntervals: channel -> 0 (null) or a handle
    timers,                 \* the repeating timers set by setInterval and not cleared
    activeSocket,           \* let activeSocket: 0 (null) or a socket id
    sockets,                \* socket id -> its state and the task id of its closures
    latestTaskSnapshot,     \* let latestTaskSnapshot
    currentTaskId,          \* let currentTaskId: 0 (null) or a task id
    submitDisabled,         \* the submit button, setSubmitDisabled
    serverStatus,           \* the server's view: how far the task has got
    handlers,               \* runs of pollTask and of the message handler in flight
    channelFetches,         \* fetches of the four other channels in flight
    taskError,              \* elements.taskError: "" (hidden) or the error shown
    panelErrors,            \* elements.stateError, eventsError, artifactsError
    toast,                  \* the message of the last showToast call ("": none yet)
    serverEvents,           \* the event list the server gives for the watched task
    serverArtifacts,        \* the artifact list the server gives for the watched task
    moves,                  \* changes of the server's lists so far (history)
    lastEventSignature,     \* let lastEventSignature
    lastArtifactSignature,  \* let lastArtifactSignature
    lastEventKeys,          \* item keys of the session's previous events fetch (history)
    lastArtifactKeys,       \* item keys of the session's previous artifacts fetch (history)
    eventRenders,           \* calls of renderEvents in the session (history)
    artifactRenders,        \* calls of renderArtifacts in the session (history)
    artifactSkipped,        \* the last artifacts fetch was not rendered (history)
    latestArtifactsTotal,   \* let latestArtifactsTotal: -1 (null) or a count
    terminalCalls,          \* invocations of handleTerminalState (history)
    finalFetches,           \* final files+artifacts fetches issued (history)
    terminalSeen,           \* a terminal snapshot has been ingested (history)
    \* ---- the pure functions of the snapshot, applied to an argument
    probe,                  \* the snapshot given as argument
    probeOut                \* the function applied and its result

authVars == <<authMode, inMemoryAccessToken, lsAccess, lsRefresh, lsApiKey,
              storageBlocked, refreshPromise, refreshOps, req, refreshCalls, storeLog>>
syncVars == <<pollStartTime, pollingIntervals, timers, activeSocket, sockets,
              latestTaskSnapshot, currentTaskId, submitDisabled, serverStatus, handlers,
              channelFetches, taskError, panelErrors, toast, serverEvents, serverArtifacts, moves,
              lastEventSignature, lastArtifactSignature, lastEventKeys, lastArtifactKeys,
              eventRenders, artifactRenders, artifactSkipped, latestArtifactsTotal,
              terminalCalls, finalFetches, terminalSeen>>
probeVars == <<probe, probeOut>>
vars == <<authVars, syncVars, probeVars>>

\* ------------------------------------------------------------------ bounds
NReq == 2          \* apiFetch invocations followed
NTasks == 2        \* task ids the user activates
NSockets == 2      \* push connections opened
ListLen == 22      \* items of the event list the server holds
MaxMoves == 1      \* changes of the server's lists followed
MaxInFlight == 3   \* handler runs suspended at a network call at one time

Requests == 1..NReq

\* ------------------------------------------------------- CredentialStore
AUTH_MODE_APIKEY == "apikey"
AUTH_MODE_AUTH == "auth"
AUTH_MODE_HYBRID == "hybrid"
AuthModes == {AUTH_MODE_APIKEY, AUTH_MODE_AUTH, AUTH_MODE_HYBRID}

\* Token strings as the server or the user may give them: empty (or missing),
\* blank, clean, and padded with white space.
RawTokens == {"", " ", "A", " A "}

\* String.prototype.trim on those strings.
Trim(s) == CASE s = " " -> ""
             [] s = " A " -> "A"
             [] OTHER -> s

\* What a storage slot can hold: nothing ("") or a trimmed, non-empty string.
StoredTokens == {Trim(s) : s \in RawTokens}

isAuthEnabled == authMode = AUTH_MODE_AUTH \/ authMode = AUTH_MODE_HYBRID

isApiKeyEnabled == authMode = AUTH_MODE_APIKEY \/ authMode = AUTH_MODE_HYBRID

\* getStoredApiKey reads localStorage only when an API key mode is configured.
ApiKeyReadThrows == isApiKeyEnabled /\ storageBlocked

getStoredApiKey == IF isApiKeyEnabled THEN lsApiKey ELSE ""

\* A credential is the in-memory access token with the two storage slots that
\* setStoredAccessToken writes; threw: a storage call threw on the way.
\* The credential after setStoredRefreshToken(value), storage accessible.
setStoredRefreshToken(cred, value) ==
    [cred EXCEPT !.lsRefresh = Trim(value)]

\* Mutant of setStoredAccessToken: clearing the access token leaves the refresh
\* token in its slot.
setStoredAccessToken_KeepsRefresh(cred, value, blocked) ==
    LET normalized == Trim(value)
        c1 == [cred EXCEPT !.inMemoryAccessToken = normalized]
    IN  IF blocked
        THEN [c1 EXCEPT !.threw = TRUE]
        ELSE [c1 EXCEPT !.lsAccess = normalized]

\* Mutant of setStoredAccessToken: a blank token leaves the storage as it is.
setStoredAccessToken_KeepsStorage(cred, value, blocked) ==
    LET normalized == Trim(value)
        c1 == [cred EXCEPT !.inMemoryAccessToken = normalized]
    IN  IF blocked
        THEN [c1 EXCEPT !.threw = TRUE]
        ELSE IF normalized = ""
             THEN c1
             ELSE [c1 EXCEPT !.lsAccess = normalized]

\* setStoredAccessToken(value, user).  The in-memory token is assigned first; the
\* storage calls that follow throw when the storage is blocked, and the caller
\* sees the exception (field threw) with the rest of the function not run.
setStoredAccessToken(cred, value, blocked) ==
    LET normalized == Trim(value)
        c1 == [cred EXCEPT !.inMemoryAccessToken = normalized]
    IN  IF blocked
        THEN [c1 EXCEPT !.threw = TRUE]
        ELSE IF normalized = ""
             THEN setStoredRefreshToken([c1 EXCEPT !.lsAccess = ""], "")
             ELSE [c1 EXCEPT !.lsAccess = normalized]

CurrentCred ==
    [inMemoryAccessToken |-> inMemoryAccessToken, lsAccess |-> lsAccess,
     lsRefresh |-> lsRefresh, threw |-> FALSE]

\* ---------------------------------------------------------- RequestClient
Statuses == {200, 401, 500}

\* A request header.
Header(name, value) == [name |-> name, value |-> value]

\* Mutant of buildAuthHeaders: the API key is attached beside the bearer token.
buildAuthHeaders_Both(accessToken, apiKey) ==
    (IF accessToken # "" THEN {Header("Authorization", accessToken)} ELSE {})
    \cup (IF apiKey # "" THEN {Header("X-API-Key", apiKey)} ELSE {})

\* buildAuthHeaders(extraHeaders): the authorization headers added to those of the
\* caller, which never names one of them.  The bearer token is preferred over the
\* static key.
buildAuthHeaders(accessToken, apiKey) ==
    IF accessToken # "" THEN {Header("Authorization", accessToken)}
    ELSE IF apiKey # "" THEN {Header("X-API-Key", apiKey)}
    ELSE {}

\* The names of the headers a request carries.
HeaderNames(headers) == {h.name : h \in headers}

\* apiFetch returns a response (result "response", with its status) or throws
\* ("network_error", "threw"): its locals are gone, its result stays.
Returned(r0, result, status) ==
    [r0 EXCEPT !.pc = "done", !.result = result, !.status = status,
               !.retryOnUnauthorized = TRUE, !.accessToken = FALSE, !.apiKey = FALSE,
               !.header = {}, !.awaits = 0]

IdleRequest ==
    [pc |-> "idle", retryOnUnauthorized |-> TRUE, accessToken |-> FALSE, apiKey |-> FALSE,
     header |-> {}, sends |-> 0, result |-> "none", status |-> 0, awaits |-> 0,
     via |-> "na", url |-> "api"]

\* The synchronous head of apiFetch(url, options, {retryOnUnauthorized}): it reads
\* the credential, builds the headers, refuses a mixed-content URL and issues the
\* fetch.  Of its locals accessToken and apiKey only the truthiness is used, and
\* kept; header: the credential the request carries.
apiFetchHead(r0, retry, mixed, tokenNow, keyThrows, keyNow) ==
    IF keyThrows
    THEN Returned(r0, "threw", 0)
    ELSE IF mixed
         THEN Returned(r0, "network_error", 0)
         ELSE [r0 EXCEPT !.pc = "fetching",
                         !.retryOnUnauthorized = retry,
                         !.accessToken = (tokenNow # ""),
                         !.apiKey = (keyNow # ""),
                         !.header = buildAuthHeaders(tokenNow, keyNow),
                         !.sends = r0.sends + 1]

\* Mutant of ShouldRefresh: the credential of the request is not looked at.
ShouldRefresh_AnyCredential(status, retry, accessToken, apiKey) ==
    /\ status = 401
    /\ retry
    /\ isAuthEnabled

\* The condition under which a response makes apiFetch call refreshAccessToken.
ShouldRefresh(status, retry, accessToken, apiKey) ==
    /\ status = 401
    /\ retry
    /\ isAuthEnabled
    /\ (accessToken \/ ~apiKey)

\* Mutant of refreshPromiseSet: the test of the stored operation is missing.
refreshPromiseSet_Never == FALSE

\* refreshAccessToken's test of the shared operation: if (refreshPromise).
refreshPromiseSet == refreshPromise # 0

\* What the refresh endpoint may answer.
RefreshResponses ==
    [kind : {"transport_error", "non_ok", "bad_json"}, token : {""}, refresh_token : {""}]
    \cup
    [kind : {"ok"}, token : RawTokens, refresh_token : RawTokens]

\* The body of the shared operation from the response on: try / catch.  Gives the
\* credential afterwards and the value the operation resolves to ("" for null).
refreshBody(cred, resp, blocked) ==
    CASE resp.kind = "transport_error" -> [cred |-> cred, refreshed |-> ""]
      [] resp.kind = "bad_json" -> [cred |-> cred, refreshed |-> ""]
      [] resp.kind = "non_ok" ->
            [cred |-> setStoredAccessToken(cred, "", blocked), refreshed |-> ""]
      [] OTHER ->
            IF resp.token # ""
            THEN LET c1 == setStoredAccessToken(cred, resp.token, blocked)
                 IN  IF c1.threw
                     THEN [cred |-> c1, refreshed |-> ""]
                     ELSE [cred |-> IF resp.refresh_token # ""
                                    THEN setStoredRefreshToken(c1, resp.refresh_token)
                                    ELSE c1,
                           refreshed |-> resp.token]
            ELSE [cred |-> setStoredAccessToken(cred, "", blocked),
                  refreshed |-> ""]

\* The value of refreshPromise once an operation that ran to its end without
\* suspending has returned: the finally block has set it to null before the
\* assignment `refreshPromise = (async () => {...})()` stores the finished promise.
afterSyncFailure(op) == op

\* The value of refreshPromise after the finally block of an operation that
\* suspended at its network call.
afterFinally == 0

\* apiFetch(r) is called with the default credential handling.  The invocations
\* are interchangeable, so they are numbered in the order of their calls.
ApiFetch(r, retry, mixed) ==
    /\ req[r].pc = "idle"
    /\ \A q \in Requests : q < r => req[q].pc # "idle"
    /\ req' = [req EXCEPT ![r] = apiFetchHead(req[r], retry, mixed, inMemoryAccessToken,
                                              ApiKeyReadThrows, getStoredApiKey)]
    /\ UNCHANGED <<authMode, storeLog, inMemoryAccessToken, lsAccess, lsRefresh, lsApiKey,
                   storageBlocked, refreshPromise, refreshOps, refreshCalls>>
    /\ UNCHANGED <<syncVars, probeVars>>

\* The endpoints of the session itself.
AuthEndpoints == {"login", "register", "logout", "me"}

\* Mutant of authCallOptions: the calls leave retryOnUnauthorized at its default.
authCallOptions_DefaultRetry(endpoint) ==
    [retryOnUnauthorized |-> TRUE, includeAuth |-> endpoint \in {"logout", "me"}]

\* The third argument of apiFetch in loginWithEmail, registerWithEmail, logout and
\* validateAuthSession.
authCallOptions(endpoint) ==
    [retryOnUnauthorized |-> FALSE, includeAuth |-> endpoint \in {"logout", "me"}]

\* loginWithEmail, registerWithEmail, logout or validateAuthSession up to the
\* await of its apiFetch: logout calls the endpoint in an auth-capable mode, and
\* validateAuthSession in such a mode with an access token at hand.  Without
\* includeAuth the request carries the caller's headers only.
AuthCall(r, endpoint, mixed) ==
    /\ req[r].pc = "idle"
    /\ \A q \in Requests : q < r => req[q].pc # "idle"
    /\ endpoint = "logout" => isAuthEnabled
    /\ endpoint = "me" => isAuthEnabled /\ inMemoryAccessToken # ""
    /\ LET opts == authCallOptions(endpoint)
           head == apiFetchHead(req[r], opts.retryOnUnauthorized, mixed, inMemoryAccessToken,
                                ApiKeyReadThrows, getStoredApiKey)
       IN  req' = [req EXCEPT ![r] =
                      [head EXCEPT !.url = endpoint,
                                   !.header = IF opts.includeAuth THEN @ ELSE {}]]
    /\ UNCHANGED <<authMode, storeLog, inMemoryAccessToken, lsAccess, lsRefresh, lsApiKey,
                   storageBlocked, refreshPromise, refreshOps, refreshCalls>>
    /\ UNCHANGED <<syncVars, probeVars>>

\* The fetch of request r fails at the transport: apiFetch throws network_error.
FetchError(r) ==
    /\ req[r].pc = "fetching"
    /\ req' = [req EXCEPT ![r] = Returned(req[r], "network_error", 0)]
    /\ UNCHANGED <<authMode, storeLog, inMemoryAccessToken, lsAccess, lsRefresh, lsApiKey,
                   storageBlocked, refreshPromise, refreshOps, refreshCalls>>
    /\ UNCHANGED <<syncVars, probeVars>>

\* The fetch of request r answers with a status that starts no refresh.
FetchReturn(r, status) ==
    /\ req[r].pc = "fetching"
    /\ ~ShouldRefresh(status, req[r].retryOnUnauthorized, req[r].accessToken, req[r].apiKey)
    /\ req' = [req EXCEPT ![r] = Returned(req[r], "response", status)]
    /\ UNCHANGED <<authMode, storeLog, inMemoryAccessToken, lsAccess, lsRefresh, lsApiKey,
                   storageBlocked, refreshPromise, refreshOps, refreshCalls>>
    /\ UNCHANGED <<syncVars, probeVars>>

\* The fetch of request r answers 401 and apiFetch calls refreshAccessToken, which
\* finds a shared operation stored and returns it.
FetchJoinRefresh(r) ==
    /\ req[r].pc = "fetching"
    /\ ShouldRefresh(401, req[r].retryOnUnauthorized, req[r].accessToken, req[r].apiKey)
    /\ refreshPromiseSet
    /\ IF refreshPromise \in refreshOps
       THEN req' = [req EXCEPT ![r].pc = "awaitRefresh", ![r].status = 401,
                               ![r].awaits = refreshPromise]
       ELSE \* the stored operation has finished with null: the await gives null
            req' = [req EXCEPT ![r] = Returned([req[r] EXCEPT !.via = "finished"], "response", 401)]
    /\ UNCHANGED <<authMode, storeLog, inMemoryAccessToken, lsAccess, lsRefresh, lsApiKey,
                   storageBlocked, refreshPromise, refreshOps, refreshCalls>>
    /\ UNCHANGED <<syncVars, probeVars>>

\* The fetch of request r answers 401 and apiFetch calls refreshAccessToken, which
\* creates the shared operation.  getStoredRefreshToken throws when the storage is
\* blocked, before any network call: catch, finally, and the operation has finished.
FetchStartRefresh(r) ==
    /\ req[r].pc = "fetching"
    /\ ShouldRefresh(401, req[r].retryOnUnauthorized, req[r].accessToken, req[r].apiKey)
    /\ ~refreshPromiseSet
    /\ IF storageBlocked
       THEN /\ refreshPromise' = afterSyncFailure(r)
            /\ req' = [req EXCEPT ![r] = Returned([req[r] EXCEPT !.via = "threw"], "response", 401)]
            /\ UNCHANGED <<refreshOps, refreshCalls>>
       ELSE /\ refreshPromise' = r
            /\ refreshOps' = refreshOps \cup {r}
            /\ refreshCalls' = refreshCalls + 1
            /\ req' = [req EXCEPT ![r].pc = "awaitRefresh", ![r].status = 401,
                                  ![r].awaits = r]
    /\ UNCHANGED <<authMode, storeLog, inMemoryAccessToken, lsAccess, lsRefresh, lsApiKey,
                   storageBlocked>>
    /\ UNCHANGED <<syncVars, probeVars>>

\* History kept with a request: how the refresh call it awaited was answered.
ViaOf(resp) ==
    IF resp.kind = "ok"
    THEN (IF resp.token = "" THEN "ok_no_token" ELSE "ok_token")
    ELSE resp.kind

\* Mutant of afterRefresh: the retry keeps retryOnUnauthorized=true.
afterRefresh_KeepsRetry(r0, refreshed, tokenNow, keyThrows, keyNow) ==
    IF refreshed # ""
    THEN apiFetchHead(r0, TRUE, FALSE, tokenNow, keyThrows, keyNow)
    ELSE Returned(r0, "response", r0.status)

\* Mutant of afterRefresh: the request is sent again whatever the refresh gave.
afterRefresh_AlwaysRetries(r0, refreshed, tokenNow, keyThrows, keyNow) ==
    apiFetchHead(r0, FALSE, FALSE, tokenNow, keyThrows, keyNow)

\* The continuation of `await refreshAccessToken()` in apiFetch for a request that
\* awaited the operation, given the value it resolved to and the credential then:
\* the request is sent again, with retryOnUnauthorized=false, only after a refresh
\* that gave a token.
afterRefresh(r0, refreshed, tokenNow, keyThrows, keyNow) ==
    IF refreshed # ""
    THEN apiFetchHead(r0, FALSE, FALSE, tokenNow, keyThrows, keyNow)
    ELSE Returned(r0, "response", r0.status)

\* The network call of operation k completes: the body runs, finally clears the
\* shared operation, and every apiFetch awaiting it continues.
RefreshSettle(k, resp) ==
    /\ k \in refreshOps
    /\ LET out == refreshBody(CurrentCred, resp, storageBlocked)
           keyNow == IF isApiKeyEnabled THEN lsApiKey ELSE ""
       IN  /\ inMemoryAccessToken' = out.cred.inMemoryAccessToken
           /\ lsAccess' = out.cred.lsAccess
           /\ lsRefresh' = out.cred.lsRefresh
           /\ req' = [r \in Requests |->
                        IF req[r].pc = "awaitRefresh" /\ req[r].awaits = k
                        THEN afterRefresh([req[r] EXCEPT !.via = ViaOf(resp)], out.refreshed,
                                          out.cred.inMemoryAccessToken,
                                          ApiKeyReadThrows, keyNow)
                        ELSE req[r]]
    /\ refreshPromise' = afterFinally
    /\ refreshOps' = refreshOps \ {k}
    /\ UNCHANGED <<authMode, storeLog, lsApiKey, storageBlocked, refreshCalls>>
    /\ UNCHANGED <<syncVars, probeVars>>

\* The browser starts or stops refusing access to window.localStorage.
StorageToggle ==
    /\ storageBlocked' = ~storageBlocked
    /\ UNCHANGED <<authMode, storeLog, inMemoryAccessToken, lsAccess, lsRefresh, lsApiKey,
                   refreshPromise, refreshOps, req, refreshCalls>>
    /\ UNCHANGED <<syncVars, probeVars>>

\* After construction: hydrateStoredTokens has read the access token slot.
InitAuth ==
    /\ authMode \in AuthModes
    /\ lsAccess \in StoredTokens
    /\ inMemoryAccessToken = Trim(lsAccess)
    /\ lsRefresh \in StoredTokens
    /\ lsApiKey \in {"", "K"}
    /\ storageBlocked = FALSE
    /\ refreshPromise = 0
    /\ refreshOps = {}
    /\ req = [r \in Requests |-> IdleRequest]
    /\ refreshCalls = 0
    /\ storeLog = << >>

NextAuth ==
    \/ \E r \in Requests, retry \in BOOLEAN, mixed \in BOOLEAN : ApiFetch(r, retry, mixed)
    \/ \E r \in Requests : FetchError(r)
    \/ \E r \in Requests, status \in Statuses : FetchReturn(r, status)
    \/ \E r \in Requests : FetchJoinRefresh(r)
    \/ \E r \in Requests : FetchStartRefresh(r)
    \/ \E k \in Requests, resp \in RefreshResponses : RefreshSettle(k, resp)
    \/ StorageToggle

\* The request client with the calls to the session's own endpoints beside
\* ordinary requests.
NextAuthCalls ==
    \/ \E r \in Requests, endpoint \in AuthEndpoints, mixed \in BOOLEAN :
          AuthCall(r, endpoint, mixed)
    \/ \E r \in Requests, mixed \in BOOLEAN : ApiFetch(r, TRUE, mixed)
    \/ \E r \in Requests : FetchError(r)
    \/ \E r \in Requests, status \in Statuses : FetchReturn(r, status)
    \/ \E r \in Requests : FetchJoinRefresh(r)
    \/ \E r \in Requests : FetchStartRefresh(r)
    \/ \E k \in Requests, resp \in RefreshResponses : RefreshSettle(k, resp)

\* ------------------------------------------------ RequestClient: claims
\* C1: at most one refresh operation is in flight at any time; while it is, it is
\* the operation refreshPromise holds, and every apiFetch suspended in
\* `await refreshAccessToken()` awaits that one operation, so no caller has issued
\* a second call to the refresh endpoint.
C1_SingleFlight ==
    /\ Cardinality(refreshOps) <= 1
    /\ refreshOps # {} => refreshPromise \in refreshOps
    /\ \A r \in Requests : req[r].pc = "awaitRefresh" => req[r].awaits \in refreshOps

\* Two callers share the one pending operation, started by a single network call.
C1_Witness ==
    \E r1, r2 \in Requests :
        /\ r1 # r2
        /\ req[r1].pc = "awaitRefresh" /\ req[r2].pc = "awaitRefresh"
        /\ req[r1].awaits = req[r2].awaits
        /\ refreshCalls = 1

\* C2: every request whose 401 made apiFetch call refreshAccessToken resolved only
\* after a network call to the refresh endpoint that it awaited had completed.
\* via = "finished": the await was served by an operation that had already ended,
\* with no call to the endpoint.
C2_ResolvesAfterOneRefresh ==
    \A r \in Requests : req[r].via # "finished"

\* C7: apiFetch sends the request at most twice and terminates: every step of an
\* invocation moves it down a finite rank (called, sent with a retry allowed,
\* awaiting the refresh, sent again without retry, returned), it has been sent at
\* most twice, and a second send never allows another refresh.
RequestRank(r0) ==
    CASE r0.pc = "idle" -> 4
      [] r0.pc = "fetching" /\ r0.retryOnUnauthorized /\ r0.sends = 1 -> 3
      [] r0.pc = "awaitRefresh" -> 2
      [] r0.pc = "fetching" /\ ~r0.retryOnUnauthorized -> 1
      [] r0.pc = "done" -> 0
      [] OTHER -> 5

C7_BoundedRetry ==
    [][\A r \in Requests :
          /\ req'[r].sends <= 2
          /\ req'[r].sends = 2 /\ req'[r].pc = "fetching" => ~req'[r].retryOnUnauthorized
          /\ req'[r] # req[r] => RequestRank(req'[r]) < RequestRank(req[r])]_vars

\* A request was sent, refreshed, sent again, answered 401 again, and returned that.
C7_Witness ==
    \E r \in Requests :
        /\ req[r].pc = "done" /\ req[r].sends = 2
        /\ req[r].result = "response" /\ req[r].status = 401
        /\ req[r].via = "ok_token"

\* C8: a request whose refresh call was answered with a non-2xx response has
\* returned the original 401 and has been sent exactly once.
C8_NoRetryAfterFailedRefresh ==
    \A r \in Requests :
        req[r].via = "non_ok" =>
            /\ req[r].pc = "done"
            /\ req[r].result = "response" /\ req[r].status = 401
            /\ req[r].sends = 1

\* Two requests awaited a refresh that was answered non-2xx; both returned.
C8_Witness ==
    \E r1, r2 \in Requests :
        /\ r1 # r2
        /\ req[r1].via = "non_ok" /\ req[r2].via = "non_ok"
        /\ req[r1].pc = "done" /\ req[r2].pc = "done"

RefreshFailed(resp) == resp.kind \in {"non_ok", "transport_error"} \/ ViaOf(resp) = "ok_no_token"

C10_OperationCleared ==
    refreshPromise # 0 => refreshPromise \in refreshOps

\* C11: after a refresh that resolved to a token, the access token held (in
\* memory and in its slot) is the token the endpoint returned, white space trimmed,
\* and the refresh token slot holds the rotated refresh token, trimmed, when one
\* was returned, and what it held before otherwise.
C11_TokensReplaced ==
    [][\A k \in Requests, resp \in RefreshResponses :
          (RefreshSettle(k, resp)
           /\ refreshBody(CurrentCred, resp, storageBlocked).refreshed # "") =>
              /\ inMemoryAccessToken' = Trim(resp.token)
              /\ lsAccess' = Trim(resp.token)
              /\ lsRefresh' = IF resp.refresh_token # ""
                              THEN Trim(resp.refresh_token) ELSE lsRefresh]_vars

\* C12: a response makes apiFetch call refreshAccessToken exactly when it is a 401,
\* the call allows a retry, the mode is auth or hybrid, and the request carried the
\* access token or the credential store gave no API key; in apikey mode, and for a
\* request sent with an API key at hand and no access token, there is no refresh.
C12_RefreshExactlyWhenMeaningful ==
    [][\A r \in Requests :
          LET meaningful ==
                  /\ req[r].retryOnUnauthorized
                  /\ authMode \in {AUTH_MODE_AUTH, AUTH_MODE_HYBRID}
                  /\ ("Authorization" \in HeaderNames(req[r].header) \/ ~req[r].apiKey)
              refreshes == FetchStartRefresh(r) \/ FetchJoinRefresh(r)
          IN  /\ refreshes => meaningful
              /\ FetchReturn(r, 401) => ~meaningful
              /\ \A status \in Statuses \ {401} : FetchReturn(r, status) => ~refreshes
              /\ (authMode = AUTH_MODE_APIKEY \/ (req[r].apiKey /\ "Authorization" \notin HeaderNames(req[r].header)))
                    => ~refreshes]_vars

\* In hybrid mode one request was sent with the API key and got its 401 back with
\* no refresh, another was sent with the access token and is awaiting the refresh.
C12_Witness ==
    /\ authMode = AUTH_MODE_HYBRID
    /\ \E r1, r2 \in Requests :
          /\ req[r1].pc = "awaitRefresh"
          /\ "Authorization" \in HeaderNames(req[r1].header)
          /\ req[r2].pc = "done" /\ req[r2].status = 401 /\ req[r2].sends = 1
          /\ req[r2].via = "na"
          /\ lsApiKey = "K"

\* C29: a request that is sent carries the Bearer header alone when an access
\* token is held, the API key header alone when no access token is held and the
\* credential store gives an API key, and never both.
C29_BearerPreferred ==
    [][\A r \in Requests :
          (req'[r].pc = "fetching" /\ req'[r].sends # req[r].sends) =>
              /\ inMemoryAccessToken' # "" =>
                    req'[r].header = {[name |-> "Authorization", value |-> inMemoryAccessToken']}
              /\ "X-API-Key" \in HeaderNames(req'[r].header) =>
                    /\ inMemoryAccessToken' = ""
                    /\ authMode \in {AUTH_MODE_APIKEY, AUTH_MODE_HYBRID}
                    /\ req'[r].header = {[name |-> "X-API-Key", value |-> lsApiKey]}
              /\ (inMemoryAccessToken' = "" /\ lsApiKey # ""
                  /\ authMode \in {AUTH_MODE_APIKEY, AUTH_MODE_HYBRID}) =>
                    "X-API-Key" \in HeaderNames(req'[r].header)
              /\ Cardinality(req'[r].header) <= 1]_vars

\* In hybrid mode, with a token and an API key both stored, a request is out
\* with the Bearer header only.
C29_Witness ==
    /\ authMode = AUTH_MODE_HYBRID
    /\ inMemoryAccessToken = "A" /\ lsApiKey = "K"
    /\ \E r \in Requests :
          /\ req[r].pc = "fetching" /\ req[r].sends = 1
          /\ HeaderNames(req[r].header) = {"Authorization"}

\* ------------------------------------------- CredentialStore: operations
\* What the user may type as an API key.
RawApiKeys == {"", " ", "K"}

LogLen == 2

\* The log with one more operation, the last LogLen kept.
Logged(op) ==
    LET l == Append(storeLog, op)
    IN  IF Len(l) > LogLen THEN Tail(l) ELSE l

CredBecomes(cred) ==
    /\ inMemoryAccessToken' = cred.inMemoryAccessToken
    /\ lsAccess' = cred.lsAccess
    /\ lsRefresh' = cred.lsRefresh

\* handleAuthResponse(response, successMessage) on the answer of /auth/login or
\* /auth/register: it throws for a non-2xx answer and for an answer without a
\* token, before any write.
handleAuthResponse(cred, resp, blocked) ==
    IF resp.kind = "ok" /\ resp.token # ""
    THEN LET c1 == setStoredAccessToken(cred, resp.token, blocked)
         IN  IF c1.threw \/ resp.refresh_token = ""
             THEN c1
             ELSE setStoredRefreshToken(c1, resp.refresh_token)
    ELSE cred

\* loginWithEmail / registerWithEmail from the answer of their request on.
AuthResponse(resp) ==
    /\ isAuthEnabled
    /\ resp.kind # "bad_json"
    /\ CredBecomes(handleAuthResponse(CurrentCred, resp, storageBlocked))
    /\ storeLog' = Logged("login")
    /\ UNCHANGED <<authMode, lsApiKey, storageBlocked, refreshPromise, refreshOps, req,
                   refreshCalls>>
    /\ UNCHANGED <<syncVars, probeVars>>

\* saveAccessToken(): the token typed by the user is stored, a blank one clears.
SaveAccessToken(value) ==
    /\ CredBecomes(setStoredAccessToken(CurrentCred, value, storageBlocked))
    /\ storeLog' = Logged("save")
    /\ UNCHANGED <<authMode, lsApiKey, storageBlocked, refreshPromise, refreshOps, req,
                   refreshCalls>>
    /\ UNCHANGED <<syncVars, probeVars>>

\* syncAccessTokenFromHash(): the access_token of the URL fragment after the
\* Google sign-in, if there is one.
SyncAccessTokenFromHash(value) ==
    /\ value # ""
    /\ CredBecomes(setStoredAccessToken(CurrentCred, value, storageBlocked))
    /\ storeLog' = Logged("hash")
    /\ UNCHANGED <<authMode, lsApiKey, storageBlocked, refreshPromise, refreshOps, req,
                   refreshCalls>>
    /\ UNCHANGED <<syncVars, probeVars>>

\* logout() from the end of its request on: setStoredAccessToken('', null).
Logout ==
    /\ CredBecomes(setStoredAccessToken(CurrentCred, "", storageBlocked))
    /\ storeLog' = Logged(IF storageBlocked THEN "logout_threw" ELSE "logout")
    /\ UNCHANGED <<authMode, lsApiKey, storageBlocked, refreshPromise, refreshOps, req,
                   refreshCalls>>
    /\ UNCHANGED <<syncVars, probeVars>>

\* setStoredApiKey(value): nothing in a mode without API keys; the slot holds the
\* trimmed key, or nothing for a blank one.
setStoredApiKey(key, value) ==
    IF isApiKeyEnabled THEN Trim(value) ELSE key

\* saveApiKey(): the key typed by the user is stored, a blank one clears.
SaveApiKey(value) ==
    /\ ~(isApiKeyEnabled /\ storageBlocked)
    /\ lsApiKey' = setStoredApiKey(lsApiKey, value)
    /\ storeLog' = Logged("saveKey")
    /\ UNCHANGED <<authMode, inMemoryAccessToken, lsAccess, lsRefresh, storageBlocked,
                   refreshPromise, refreshOps, req, refreshCalls>>
    /\ UNCHANGED <<syncVars, probeVars>>

\* The credential operations of the user, and one request with its refresh.
NextStore ==
    \/ \E resp \in RefreshResponses : AuthResponse(resp)
    \/ \E value \in RawTokens : SaveAccessToken(value)
    \/ \E value \in RawTokens : SyncAccessTokenFromHash(value)
    \/ Logout
    \/ \E value \in RawApiKeys : SaveApiKey(value)
    \/ StorageToggle
    \/ \E retry \in BOOLEAN, mixed \in BOOLEAN : ApiFetch(1, retry, mixed)
    \/ FetchError(1)
    \/ \E status \in Statuses : FetchReturn(1, status)
    \/ FetchStartRefresh(1)
    \/ \E resp \in RefreshResponses : RefreshSettle(1, resp)

\* logout() has run and no credential operation of the user followed.
LoggedOut == storeLog # << >> /\ storeLog[Len(storeLog)] \in {"logout", "logout_threw"}

\* A signed-in user up to the logout: requests and a refresh before it, and what
\* is still in flight settling after it.
NextLogout ==
    \/ \E resp \in RefreshResponses : ~LoggedOut /\ AuthResponse(resp)
    \/ \E value \in RawTokens : ~LoggedOut /\ SaveAccessToken(value)
    \/ ~LoggedOut /\ Logout
    \/ \E mixed \in BOOLEAN : ~LoggedOut /\ ApiFetch(1, TRUE, mixed)
    \/ FetchError(1)
    \/ \E status \in Statuses : FetchReturn(1, status)
    \/ ~LoggedOut /\ FetchStartRefresh(1)
    \/ \E resp \in RefreshResponses : RefreshSettle(1, resp)

\* -------------------------------------------- CredentialStore: claims
\* C22: durable local storage never holds an access token, whatever login,
\* register, refresh, manual save, Google sign-in and logout operations ran.
C22_AccessTokenNotPersisted == lsAccess = ""

TaskIds == 1..NTasks
Channels == {"status", "state", "events", "artifacts", "files"}
TERMINAL_STATUSES == {"completed", "failed", "error"}

\* String.prototype.toLowerCase on the labels the server sends.
ToLower(s) == CASE s = "COMPLETED" -> "completed"
                [] s = "Completed" -> "completed"
                [] s = "FAILED" -> "failed"
                [] s = "Failed" -> "failed"
                [] s = "ERROR" -> "error"
                [] OTHER -> s

\* A progress value is <<n>>, the number n/100, or << >>, not a number (NaN, a
\* string, null, undefined).  An infinite progress is clamped as any large one.
\* The result of formatProgress is counted in units of 1/10000: One is 1.0.
One == 10000

\* Mutant of formatProgress: a value above 1 is not divided by 100.
formatProgress_NoScale(progress) ==
    IF progress = << >>
    THEN 0
    ELSE LET normalized == progress[1] * 100
             capped == IF normalized < One THEN normalized ELSE One
         IN  IF capped > 0 THEN capped ELSE 0

\* formatProgress(progress).value: progress > 1 ? progress / 100 : progress,
\* clamped to [0, 1].
formatProgress(progress) ==
    IF progress = << >>
    THEN 0
    ELSE LET normalized == IF progress[1] > 100 THEN progress[1] ELSE progress[1] * 100
             capped == IF normalized < One THEN normalized ELSE One
         IN  IF capped > 0 THEN capped ELSE 0

\* Mutant of normalizeTaskSnapshot: the progress is raised whatever the status.
normalizeTaskSnapshot_AnyStatus(data) ==
    LET status == ToLower(data.status)
        d1 == IF data.progress = << >> \/ data.progress[1] < 100
              THEN [data EXCEPT !.progress = <<100>>]
              ELSE data
    IN  IF status = "failed" /\ (d1.current_stage = "" \/ d1.current_stage = "completed")
        THEN [d1 EXCEPT !.current_stage = "review"]
        ELSE d1

\* normalizeTaskSnapshot(data) for an object.
normalizeTaskSnapshot(data) ==
    LET status == ToLower(data.status)
        d1 == IF status \in TERMINAL_STATUSES
                 /\ (data.progress = << >> \/ data.progress[1] < 100)
              THEN [data EXCEPT !.progress = <<100>>]
              ELSE data
    IN  IF status = "failed" /\ (d1.current_stage = "" \/ d1.current_stage = "completed")
        THEN [d1 EXCEPT !.current_stage = "review"]
        ELSE d1

\* Mutant of isTerminalState: the progress is not looked at.
isTerminalState_StatusOnly(data) ==
    ToLower(data.status) \in TERMINAL_STATUSES

isTerminalState(data) ==
    LET isCompletedByProgress ==
            formatProgress(data.progress) >= One /\ ToLower(data.current_stage) = "completed"
    IN  ToLower(data.status) \in TERMINAL_STATUSES \/ isCompletedByProgress

\* latestTaskSnapshot = null
NullSnapshot == [status |-> "null", current_stage |-> "", progress |-> << >>]

\* The snapshots the server reports as the task runs, in order.
ServerRun ==
    << [status |-> "queued", current_stage |-> "starting", progress |-> <<0>>],
       [status |-> "running", current_stage |-> "coding", progress |-> <<40>>],
       [status |-> "Completed", current_stage |-> "completed", progress |-> <<90>>] >>

\* The snapshot submitTask shows right after the activation.
QueuedSnapshot == [status |-> "queued", current_stage |-> "starting", progress |-> <<0>>]

\* updateStatusPanel also shows the snapshot's error text in the task error slot;
\* the snapshots followed carry none.
SnapshotError == ""

\* Mutant of updateStatusPanel: a snapshot already shown is kept.
updateStatusPanel_KeepsShown(shown, data) ==
    IF shown # NullSnapshot THEN shown ELSE normalizeTaskSnapshot(data)

\* updateStatusPanel(data): the last-known snapshot after the call, given the one
\* shown before.  A null argument returns at once.
updateStatusPanel(shown, data) ==
    IF data = NullSnapshot THEN shown ELSE normalizeTaskSnapshot(data)

\* ---- PollScheduler
\* The scheduler's state: the start instant, the five handles, and the repeating
\* timers set and not yet cleared.  A timer is named by the schedulePoll call that
\* set it (gen) and its channel; its callback polls task.
Scheduler ==
    [pollStartTime |-> pollStartTime, pollingIntervals |-> pollingIntervals, timers |-> timers]

NoTimers == [c \in Channels |-> 0]

\* Mutant of stopPolling: the files handle is passed over.
stopPolling_SkipsFiles(st) ==
    [pollStartTime |-> "null",
     pollingIntervals |-> [c \in Channels |->
                              IF c = "files" THEN st.pollingIntervals[c] ELSE 0],
     timers |-> {x \in st.timers :
                    x.channel = "files" \/ st.pollingIntervals[x.channel] # x.gen}]

\* stopPolling(): clearInterval on every handle that is set, the handles nulled,
\* the start instant forgotten.
stopPolling(st) ==
    [pollStartTime |-> "null",
     pollingIntervals |-> NoTimers,
     timers |-> {x \in st.timers : st.pollingIntervals[x.channel] # x.gen}]

\* setInterval gives handles not in use.
FreshGen(ts) ==
    CHOOSE g \in 1..(Cardinality(ts) + 1) :
        /\ \A x \in ts : x.gen # g
        /\ \A k \in 1..(g - 1) : \E x \in ts : x.gen = k

POLL_INTERVAL_MS == 2000
POLL_SLOW_INTERVAL_MS == 4000

\* Mutant of schedulePoll: every channel is polled at the fast cadence.
schedulePoll_AllFast(st, taskId) ==
    LET g == FreshGen(st.timers)
    IN  [st EXCEPT !.pollingIntervals = [c \in Channels |-> g],
                   !.timers = @ \cup {[gen |-> g, channel |-> c, task |-> taskId,
                                        interval |-> POLL_INTERVAL_MS] : c \in Channels}]

\* schedulePoll(taskId): five repeating timers whose callbacks poll taskId, status
\* and state every POLL_INTERVAL_MS, the others every POLL_SLOW_INTERVAL_MS; the
\* handles are overwritten.
schedulePoll(st, taskId) ==
    LET g == FreshGen(st.timers)
        intervalOf(c) == IF c \in {"status", "state"}
                         THEN POLL_INTERVAL_MS ELSE POLL_SLOW_INTERVAL_MS
    IN  [st EXCEPT !.pollingIntervals = [c \in Channels |-> g],
                   !.timers = @ \cup {[gen |-> g, channel |-> c, task |-> taskId,
                                        interval |-> intervalOf(c)] : c \in Channels}]

\* Mutant of startPolling: the running timers are not stopped first.
startPolling_NoStop(st, taskId) ==
    schedulePoll([st EXCEPT !.pollStartTime = "fresh"], taskId)

\* startPolling(taskId), the scheduler's part: stop, record the start instant,
\* schedule.  (The immediate fetches are issued by the calling action.)
startPolling(st, taskId) ==
    schedulePoll([stopPolling(st) EXCEPT !.pollStartTime = "fresh"], taskId)

\* Mutant of pollTaskHead: the start instant is not compared with the clock.
pollTaskHead_NoTimeout(st) ==
    [st |-> [st EXCEPT !.pollStartTime = IF @ = "null" THEN "fresh" ELSE @],
     fetch |-> TRUE]

\* pollTask(taskId) up to its await: the start instant is set if missing, and
\* past POLL_TIMEOUT_MS the scheduler is stopped and no status request issued.
pollTaskHead(st) ==
    LET s1 == [st EXCEPT !.pollStartTime = IF @ = "null" THEN "fresh" ELSE @]
    IN  IF s1.pollStartTime = "expired"
        THEN [st |-> stopPolling(s1), fetch |-> FALSE]
        ELSE [st |-> s1, fetch |-> TRUE]

SchedulerBecomes(st) ==
    /\ pollStartTime' = st.pollStartTime
    /\ pollingIntervals' = st.pollingIntervals
    /\ timers' = st.timers

\* ---- runs suspended at a network call
Handler(kind, task, since, sock, snap) ==
    [kind |-> kind, task |-> task, since |-> since, sock |-> sock, snap |-> snap]

InFlight == BagCardinality(handlers)

OneHandler(h) == SetToBag({h})

\* pollState, pollEvents, pollArtifacts and pollFiles of taskId, each suspended at
\* its fetch.
SideChannels == Channels \ {"status"}

ChannelFetch(c, t) == [channel |-> c, task |-> t]

AllSideFetches(t) == {ChannelFetch(c, t) : c \in SideChannels}

\* Mutant of isNotFound: every error of the status fetch is a hard stop.
isNotFound_AnyError(status) == TRUE

\* pollTask's test of the error status: status === 404.
isNotFound(status) == status = 404

\* The error results fetchJson gives: a non-2xx status, or none (0) when the
\* backend could not be reached.
ErrorStatuses == {0, 401, 403, 404, 500, 501}

\* The text shown in the task error slot for an error result.
ErrorText(status) == IF status = 404 THEN "not_found" ELSE "error"

\* ---- ChannelSignature
\* An item of a list channel: its id (0: none) and its creation instant.
Item(id, created_at) == [id |-> id, created_at |-> created_at]

\* getItemKey(item): the first of its identifiers that is set, else created_at.
getItemKey(item) == IF item.id # 0 THEN item.id ELSE item.created_at

\* getArtifactKey(artifact): "id:<id>", or "meta:<type>|<produced_by>|<created_at>"
\* for an artifact without id; the two forms never coincide.
getArtifactKey(artifact) ==
    IF artifact.id # 0 THEN artifact.id ELSE 1000 + artifact.created_at

\* dedupeArtifacts(artifacts): the first artifact of every key, in order.
dedupeArtifacts(artifacts) ==
    LET indexed == [k \in 1..Len(artifacts) |-> <<k, artifacts[k]>>]
        first(p) == \A j \in 1..(p[1] - 1) :
                        getArtifactKey(artifacts[j]) # getArtifactKey(p[2])
        kept == SelectSeq(indexed, first)
    IN  [k \in 1..Len(kept) |-> kept[k][2]]

\* The items of a signature: slice(0, 20).
SIGNATURE_LIMIT == 20

EventKeys(events) == [k \in 1..Len(events) |-> getItemKey(events[k])]

ArtifactKeys(artifacts) == [k \in 1..Len(artifacts) |-> getArtifactKey(artifacts[k])]

\* lastEventSignature = '': no list gives this signature.
NoSignature == [set |-> FALSE, keys |-> << >>]

\* The ordered key list of a fetch, as the history keeps it.
KeyList(keys) == [set |-> TRUE, keys |-> keys]

\* JSON.stringify(list.slice(0, 20).map(key)): a string that tells two key lists
\* apart exactly when their first 20 keys differ.
signatureOf(keys) ==
    [set |-> TRUE,
     keys |-> SubSeq(keys, 1, IF Len(keys) < SIGNATURE_LIMIT THEN Len(keys) ELSE SIGNATURE_LIMIT)]

\* latestArtifactsTotal = null
NoTotal == 0 - 1

\* Mutant of pollArtifactsBody: the total is updated with the rendering only.
pollArtifactsBody_CountsWhenRendered(total, lastSignature, renders, artifacts) ==
    LET dedupedArtifacts == dedupeArtifacts(artifacts)
        signature == signatureOf(ArtifactKeys(dedupedArtifacts))
    IN  [total |-> IF signature = lastSignature THEN total ELSE Len(dedupedArtifacts),
         signature |-> signature,
         renders |-> IF signature = lastSignature THEN renders ELSE renders + 1]

\* pollArtifacts from its data on: the list is deduplicated, the total is set to
\* its length, and renderArtifacts is called unless the signature is the one of
\* the previous fetch.
pollArtifactsBody(total, lastSignature, renders, artifacts) ==
    LET dedupedArtifacts == dedupeArtifacts(artifacts)
        signature == signatureOf(ArtifactKeys(dedupedArtifacts))
    IN  [total |-> Len(dedupedArtifacts),
         signature |-> signature,
         renders |-> IF signature = lastSignature THEN renders ELSE renders + 1]

\* The lists of the server: events with ids, the last one with its creation
\* instant only; artifacts likewise, the first one listed twice.
ServerEvents0 ==
    [k \in 1..ListLen |-> IF k < ListLen THEN Item(k, 100 + k) ELSE Item(0, 100 + k)]

ServerArtifacts0 == ServerEvents0 \o << Item(1, 101) >>

\* The list with the item at position i moved to position j.
MoveItem(list, i, j) ==
    LET rest == [k \in 1..(Len(list) - 1) |-> IF k < i THEN list[k] ELSE list[k + 1]]
    IN  [k \in 1..Len(list) |->
            IF k < j THEN rest[k] ELSE IF k = j THEN list[i] ELSE rest[k - 1]]

\* ---- PushChannel
\* closeWebSocket(): close() on the socket held, and the reference dropped.
closeWebSocket(socks, active) ==
    IF active # 0
    THEN [socks EXCEPT ![active].state = "closing"]
    ELSE socks

SocketIds == 1..NSockets

\* Mutant of onSocketClose: the listener opens a new connection for the task.
onSocketClose_Reconnects(socks, active, s) ==
    LET fresh == {x \in DOMAIN socks : socks[x].state = "none"}
        closed == [socks EXCEPT ![s].state = "closed"]
    IN  IF fresh = {}
        THEN [sockets |-> closed, activeSocket |-> 0]
        ELSE LET n == CHOOSE x \in fresh : \A y \in fresh : x <= y
             IN  [sockets |-> [closed EXCEPT ![n] = [state |-> "open", task |-> socks[s].task]],
                  activeSocket |-> n]

\* The close listener of a socket: activeSocket = null, nothing else.
onSocketClose(socks, active, s) ==
    [sockets |-> [socks EXCEPT ![s].state = "closed"], activeSocket |-> 0]

FreshSockets == {s \in SocketIds : sockets[s].state = "none"}

\* Mutant of hasSocketCredential: a socket is created without credential too.
hasSocketCredential_Always == TRUE

\* startWebSocket's choice of credential: a socket is created only with one.
hasSocketCredential ==
    (isAuthEnabled /\ inMemoryAccessToken # "") \/ getStoredApiKey # ""

\* The message data that carry no snapshot.
MalformedPayloads == {"empty", "not_json", "json_null", "json_number", "json_string",
                      "json_array"}

\* The message handler's test of the parsed value: payload && typeof payload ===
\* 'object', which an array passes.
isObjectPayload(kind) == kind = "json_array"

\* { ...payload } of an array: an object with no status, stage or progress.
EmptySnapshot == [status |-> "", current_stage |-> "", progress |-> << >>]

\* ---- error slots and notifications
PanelChannels == {"state", "events", "artifacts"}

NoPanelErrors == [c \in PanelChannels |-> ""]

\* The error branch of pollState, pollEvents, pollArtifacts (renderPanelError with
\* the error) and of pollFiles (a bare return).
channelErrorSlots(slots, channel) ==
    IF channel \in PanelChannels THEN [slots EXCEPT ![channel] = "error"] ELSE slots

\* The data branch of the same: renderPanelError with '' where there is a slot.
channelDataSlots(slots, channel) ==
    IF channel \in PanelChannels THEN [slots EXCEPT ![channel] = ""] ELSE slots

\* ---- variable groups
noteVars == <<panelErrors, toast>>
schedVars == <<pollStartTime, pollingIntervals, timers>>
sockVars == <<activeSocket, sockets>>
histVars == <<terminalCalls, finalFetches, terminalSeen>>
listVars == <<serverEvents, serverArtifacts, moves>>
dedupVars == <<lastEventSignature, lastArtifactSignature, lastEventKeys, lastArtifactKeys,
               eventRenders, artifactRenders, artifactSkipped, latestArtifactsTotal>>

\* submitTask up to its await of createTask: the button is disabled and
\* resetResultPanel() clears the error slot and the last-known snapshot.
SubmitStart ==
    /\ ~submitDisabled
    /\ submitDisabled' = TRUE
    /\ taskError' = ""
    /\ latestTaskSnapshot' = NullSnapshot
    /\ latestArtifactsTotal' = NoTotal
    /\ UNCHANGED <<schedVars, sockVars, histVars, currentTaskId, serverStatus, handlers,
                   channelFetches>>
    /\ UNCHANGED <<lastEventSignature, lastArtifactSignature, lastEventKeys,
                   lastArtifactKeys, eventRenders, artifactRenders, artifactSkipped>>
    /\ UNCHANGED listVars
    /\ UNCHANGED noteVars
    /\ UNCHANGED <<authVars, probeVars>>

\* submitResearchChatMessage with no task yet, from the answer of createTask to
\* its next await: the new task id is recorded, no timer is set.
IntakeCreate(t) ==
    /\ currentTaskId = 0
    /\ currentTaskId' = t
    /\ UNCHANGED <<schedVars, sockVars, histVars, latestTaskSnapshot, submitDisabled,
                   serverStatus, handlers, channelFetches, taskError>>
    /\ UNCHANGED <<listVars, dedupVars>>
    /\ UNCHANGED noteVars
    /\ UNCHANGED <<authVars, probeVars>>

\* activateTask(taskId): startPolling(taskId), whose pollTask, pollState,
\* pollEvents, pollArtifacts and pollFiles calls issue their requests at once, then
\* startWebSocket(taskId).  how: "load" (loadTask: resetResultPanel() first),
\* "open" (the Open button of the history), "submit" (submitTask after createTask:
\* updateStatusPanel of the queued snapshot follows).  wsThrows: the WebSocket
\* constructor throws.
ActivateTask(t, how, wsThrows) ==
    /\ InFlight < MaxInFlight
    /\ FreshSockets # {}
    /\ how = "submit" => submitDisabled
    /\ currentTaskId' = t
    /\ SchedulerBecomes(startPolling(Scheduler, t))
    /\ handlers' = handlers (+) OneHandler(Handler("poll", t, serverStatus[t], 0, NullSnapshot))
    /\ channelFetches' = channelFetches \cup AllSideFetches(t)
    /\ latestTaskSnapshot' =
          CASE how = "load" -> NullSnapshot
            [] how = "submit" -> updateStatusPanel(latestTaskSnapshot, QueuedSnapshot)
            [] OTHER -> latestTaskSnapshot
    /\ taskError' = CASE how = "load" -> ""
                       [] how = "submit" -> SnapshotError
                       [] OTHER -> taskError
    /\ LET closed == closeWebSocket(sockets, activeSocket)
           s == CHOOSE x \in FreshSockets : \A y \in FreshSockets : x <= y
       IN  IF hasSocketCredential /\ ~wsThrows
           THEN /\ sockets' = [closed EXCEPT ![s] = [state |-> "open", task |-> t]]
                /\ activeSocket' = s
           ELSE /\ sockets' = closed
                /\ activeSocket' = 0
    /\ terminalCalls' = 0
    /\ finalFetches' = 0
    /\ terminalSeen' = FALSE
    /\ UNCHANGED <<submitDisabled, serverStatus>>
    /\ lastEventSignature' = NoSignature
    /\ lastArtifactSignature' = NoSignature
    /\ lastEventKeys' = NoSignature
    /\ lastArtifactKeys' = NoSignature
    /\ eventRenders' = 0
    /\ artifactRenders' = 0
    /\ artifactSkipped' = FALSE
    /\ latestArtifactsTotal' = IF how = "load" THEN NoTotal ELSE latestArtifactsTotal
    /\ UNCHANGED listVars
    /\ panelErrors' = NoPanelErrors
    /\ UNCHANGED toast
    /\ UNCHANGED <<authVars, probeVars>>

\* resumeClarification after its awaits: the toast, then startPolling(currentTaskId).
ResumePolling ==
    /\ currentTaskId # 0
    /\ InFlight < MaxInFlight
    /\ SchedulerBecomes(startPolling(Scheduler, currentTaskId))
    /\ handlers' = handlers (+)
           OneHandler(Handler("poll", currentTaskId, serverStatus[currentTaskId], 0,
                              NullSnapshot))
    /\ channelFetches' = channelFetches \cup AllSideFetches(currentTaskId)
    /\ UNCHANGED <<sockVars, histVars, latestTaskSnapshot, currentTaskId, submitDisabled,
                   serverStatus, taskError>>
    /\ lastEventSignature' = NoSignature
    /\ lastArtifactSignature' = NoSignature
    /\ lastEventKeys' = NoSignature
    /\ lastArtifactKeys' = NoSignature
    /\ eventRenders' = 0
    /\ artifactRenders' = 0
    /\ artifactSkipped' = FALSE
    /\ UNCHANGED latestArtifactsTotal
    /\ UNCHANGED listVars
    /\ toast' = "resumed"
    /\ UNCHANGED panelErrors
    /\ UNCHANGED <<authVars, probeVars>>

\* refreshStatus(): pollTask and the four other polls of the current task, called
\* by the user.
RefreshStatus ==
    /\ currentTaskId # 0
    /\ InFlight < MaxInFlight
    /\ LET head == pollTaskHead(Scheduler)
       IN  /\ SchedulerBecomes(head.st)
           /\ IF head.fetch
              THEN /\ handlers' = handlers (+)
                          OneHandler(Handler("poll", currentTaskId,
                                             serverStatus[currentTaskId], 0, NullSnapshot))
                   /\ UNCHANGED <<taskError, toast>>
              ELSE /\ taskError' = "timeout"
                   /\ toast' = "timeout"
                   /\ UNCHANGED handlers
    /\ channelFetches' = channelFetches \cup AllSideFetches(currentTaskId)
    /\ UNCHANGED <<sockVars, histVars, latestTaskSnapshot, currentTaskId, submitDisabled,
                   serverStatus>>
    /\ UNCHANGED <<listVars, dedupVars>>
    /\ UNCHANGED panelErrors
    /\ UNCHANGED <<authVars, probeVars>>

\* The server's task moves on to its next snapshot.
ServerAdvance(t) ==
    /\ serverStatus[t] < Len(ServerRun)
    /\ serverStatus' = [serverStatus EXCEPT ![t] = @ + 1]
    /\ UNCHANGED <<schedVars, sockVars, histVars, latestTaskSnapshot, currentTaskId,
                   submitDisabled, handlers, channelFetches, taskError>>
    /\ UNCHANGED <<listVars, dedupVars>>
    /\ UNCHANGED noteVars
    /\ UNCHANGED <<authVars, probeVars>>

\* More than POLL_TIMEOUT_MS have passed since pollStartTime.
TimePasses ==
    /\ pollStartTime = "fresh"
    /\ pollStartTime' = "expired"
    /\ UNCHANGED <<pollingIntervals, timers, sockVars, histVars, latestTaskSnapshot,
                   currentTaskId, submitDisabled, serverStatus, handlers, channelFetches,
                   taskError>>
    /\ UNCHANGED <<listVars, dedupVars>>
    /\ UNCHANGED noteVars
    /\ UNCHANGED <<authVars, probeVars>>

\* The status timer x fires: pollTask(x.task) up to its await of fetchTask.
StatusTick(x) ==
    /\ x \in timers
    /\ x.channel = "status"
    /\ InFlight < MaxInFlight
    /\ LET head == pollTaskHead(Scheduler)
       IN  /\ SchedulerBecomes(head.st)
           /\ IF head.fetch
              THEN /\ handlers' = handlers (+)
                          OneHandler(Handler("poll", x.task, serverStatus[x.task], 0,
                                             NullSnapshot))
                   /\ UNCHANGED <<taskError, toast>>
              ELSE /\ taskError' = "timeout"
                   /\ toast' = "timeout"
                   /\ UNCHANGED handlers
    /\ UNCHANGED <<sockVars, histVars, latestTaskSnapshot, currentTaskId, submitDisabled,
                   serverStatus, channelFetches>>
    /\ UNCHANGED <<listVars, dedupVars>>
    /\ UNCHANGED panelErrors
    /\ UNCHANGED <<authVars, probeVars>>

\* The timer x of another channel fires: its poll function issues its fetch.  The
\* timers are slow against the network: the previous fetch has been answered.
ChannelTick(x) ==
    /\ x \in timers
    /\ x.channel \in SideChannels
    /\ ChannelFetch(x.channel, x.task) \notin channelFetches
    /\ channelFetches' = channelFetches \cup {ChannelFetch(x.channel, x.task)}
    /\ UNCHANGED <<schedVars, sockVars, histVars, latestTaskSnapshot, currentTaskId,
                   submitDisabled, serverStatus, handlers, taskError>>
    /\ UNCHANGED <<listVars, dedupVars>>
    /\ UNCHANGED noteVars
    /\ UNCHANGED <<authVars, probeVars>>

\* The fetch f of pollState, pollEvents, pollArtifacts or pollFiles gives an error
\* result: the channel's error slot is written, nothing else.  more: another fetch
\* of the same channel and task is still in flight.
ChannelError(f, more) ==
    /\ f \in channelFetches
    /\ channelFetches' = IF more THEN channelFetches ELSE channelFetches \ {f}
    /\ UNCHANGED <<schedVars, sockVars, histVars, latestTaskSnapshot, currentTaskId,
                   submitDisabled, serverStatus, handlers, taskError>>
    /\ UNCHANGED <<listVars, dedupVars>>
    /\ panelErrors' = channelErrorSlots(panelErrors, f.channel)
    /\ UNCHANGED toast
    /\ UNCHANGED <<authVars, probeVars>>

\* The fetch f of pollState or pollFiles gives data: the panel is rendered.
ChannelData(f, more) ==
    /\ f \in channelFetches
    /\ f.channel \in {"state", "files"}
    /\ channelFetches' = IF more THEN channelFetches ELSE channelFetches \ {f}
    /\ UNCHANGED <<schedVars, sockVars, histVars, latestTaskSnapshot, currentTaskId,
                   submitDisabled, serverStatus, handlers, taskError>>
    /\ UNCHANGED <<listVars, dedupVars>>
    /\ panelErrors' = channelDataSlots(panelErrors, f.channel)
    /\ UNCHANGED toast
    /\ UNCHANGED <<authVars, probeVars>>

\* The fetch f of pollEvents gives the server's list: renderEvents is called
\* unless the signature is the one of the previous fetch.
EventsData(f, more) ==
    /\ f \in channelFetches
    /\ f.channel = "events"
    /\ channelFetches' = IF more THEN channelFetches ELSE channelFetches \ {f}
    /\ LET signature == signatureOf(EventKeys(serverEvents))
       IN  /\ lastEventSignature' = signature
           /\ eventRenders' = IF signature = lastEventSignature
                              THEN eventRenders ELSE eventRenders + 1
    /\ lastEventKeys' = KeyList(EventKeys(serverEvents))
    /\ UNCHANGED <<lastArtifactSignature, lastArtifactKeys, artifactRenders,
                   artifactSkipped, latestArtifactsTotal>>
    /\ UNCHANGED <<schedVars, sockVars, histVars, latestTaskSnapshot, currentTaskId,
                   submitDisabled, serverStatus, handlers, taskError>>
    /\ UNCHANGED listVars
    /\ panelErrors' = channelDataSlots(panelErrors, f.channel)
    /\ UNCHANGED toast
    /\ UNCHANGED <<authVars, probeVars>>

\* The fetch f of pollArtifacts gives the server's list: it is deduplicated, and
\* renderArtifacts is called unless the signature is the one of the previous fetch.
ArtifactsData(f, more) ==
    /\ f \in channelFetches
    /\ f.channel = "artifacts"
    /\ channelFetches' = IF more THEN channelFetches ELSE channelFetches \ {f}
    /\ LET out == pollArtifactsBody(latestArtifactsTotal, lastArtifactSignature,
                                    artifactRenders, serverArtifacts)
       IN  /\ latestArtifactsTotal' = out.total
           /\ lastArtifactSignature' = out.signature
           /\ artifactRenders' = out.renders
           /\ artifactSkipped' = (out.renders = artifactRenders)
    /\ lastArtifactKeys' = KeyList(ArtifactKeys(dedupeArtifacts(serverArtifacts)))
    /\ UNCHANGED <<lastEventSignature, lastEventKeys, eventRenders>>
    /\ UNCHANGED <<schedVars, sockVars, histVars, latestTaskSnapshot, currentTaskId,
                   submitDisabled, serverStatus, handlers, taskError>>
    /\ UNCHANGED listVars
    /\ panelErrors' = channelDataSlots(panelErrors, f.channel)
    /\ UNCHANGED toast
    /\ UNCHANGED <<authVars, probeVars>>

\* The server's event list changes: one item moves to another position.
ServerEventsMove(i, j) ==
    /\ moves < MaxMoves
    /\ i # j
    /\ serverEvents' = MoveItem(serverEvents, i, j)
    /\ moves' = moves + 1
    /\ UNCHANGED serverArtifacts
    /\ UNCHANGED <<schedVars, sockVars, histVars, latestTaskSnapshot, currentTaskId,
                   submitDisabled, serverStatus, handlers, channelFetches, taskError>>
    /\ UNCHANGED dedupVars
    /\ UNCHANGED noteVars
    /\ UNCHANGED <<authVars, probeVars>>

\* The server's artifact list changes: one item moves to another position.
ServerArtifactsMove(i, j) ==
    /\ moves < MaxMoves
    /\ i # j
    /\ serverArtifacts' = MoveItem(serverArtifacts, i, j)
    /\ moves' = moves + 1
    /\ UNCHANGED serverEvents
    /\ UNCHANGED <<schedVars, sockVars, histVars, latestTaskSnapshot, currentTaskId,
                   submitDisabled, serverStatus, handlers, channelFetches, taskError>>
    /\ UNCHANGED dedupVars
    /\ UNCHANGED noteVars
    /\ UNCHANGED <<authVars, probeVars>>

\* The server's artifact list grows by one artifact at its end.
ServerArtifactsAppend ==
    /\ moves < MaxMoves
    /\ serverArtifacts' = Append(serverArtifacts, Item(Len(serverArtifacts) + 1, 200))
    /\ moves' = moves + 1
    /\ UNCHANGED serverEvents
    /\ UNCHANGED <<schedVars, sockVars, histVars, latestTaskSnapshot, currentTaskId,
                   submitDisabled, serverStatus, handlers, channelFetches, taskError>>
    /\ UNCHANGED dedupVars
    /\ UNCHANGED noteVars
    /\ UNCHANGED <<authVars, probeVars>>

\* fetchTask of a pollTask run gives an error result.
PollError(h, status) ==
    /\ BagIn(h, handlers)
    /\ h.kind = "poll"
    /\ handlers' = handlers (-) OneHandler(h)
    /\ taskError' = ErrorText(status)
    /\ IF isNotFound(status)
       THEN /\ SchedulerBecomes(stopPolling(Scheduler))
            /\ submitDisabled' = FALSE
       ELSE UNCHANGED <<schedVars, submitDisabled>>
    /\ UNCHANGED <<sockVars, histVars, latestTaskSnapshot, currentTaskId, serverStatus,
                   channelFetches>>
    /\ UNCHANGED <<listVars, dedupVars>>
    /\ panelErrors' = [c \in PanelChannels |-> ErrorText(status)]
    /\ toast' = ErrorText(status)
    /\ UNCHANGED <<authVars, probeVars>>

\* fetchTask of a pollTask run gives the snapshot the server had at some moment
\* between the request and now.
PollData(h, i) ==
    /\ BagIn(h, handlers)
    /\ h.kind = "poll"
    /\ i \in h.since..serverStatus[h.task]
    /\ LET normalized == normalizeTaskSnapshot(ServerRun[i])
       IN  /\ latestTaskSnapshot' = updateStatusPanel(latestTaskSnapshot, normalized)
           /\ IF isTerminalState(normalized)
              THEN /\ handlers' = (handlers (-) OneHandler(h)) (+)
                          OneHandler(Handler("pollFinal", h.task, 0, 0, normalized))
                   /\ finalFetches' = finalFetches + 1
                   /\ terminalSeen' = TRUE
              ELSE /\ handlers' = handlers (-) OneHandler(h)
                   /\ UNCHANGED <<finalFetches, terminalSeen>>
    /\ taskError' = SnapshotError
    /\ UNCHANGED <<schedVars, sockVars, currentTaskId, submitDisabled, serverStatus,
                   terminalCalls, channelFetches>>
    /\ UNCHANGED <<listVars, dedupVars>>
    /\ UNCHANGED noteVars
    /\ UNCHANGED <<authVars, probeVars>>

\* The final files and artifacts fetches of a pollTask run have both completed.
PollFinalDone(h) ==
    /\ BagIn(h, handlers)
    /\ h.kind = "pollFinal"
    /\ handlers' = handlers (-) OneHandler(h)
    /\ SchedulerBecomes(stopPolling(Scheduler))
    /\ terminalCalls' = terminalCalls + 1
    /\ submitDisabled' = FALSE
    /\ UNCHANGED <<sockVars, latestTaskSnapshot, currentTaskId, serverStatus,
                   finalFetches, terminalSeen, channelFetches, taskError>>
    /\ UNCHANGED <<listVars, dedupVars>>
    /\ \E failed \in BOOLEAN :
          panelErrors' = IF failed THEN channelErrorSlots(panelErrors, "artifacts")
                         ELSE channelDataSlots(panelErrors, "artifacts")
    /\ UNCHANGED toast
    /\ UNCHANGED <<authVars, probeVars>>

\* A message event on socket s whose data is no snapshot: empty data, text that
\* is not JSON, or a JSON value other than an object with fields.  The handler
\* returns unless JSON.parse gave a value that is truthy and of type 'object'; the
\* spread of an array in normalizeTaskSnapshot gives an object without status.
WsMalformed(s, kind) ==
    /\ sockets[s].state = "open"
    /\ IF isObjectPayload(kind)
       THEN /\ latestTaskSnapshot' = updateStatusPanel(latestTaskSnapshot, EmptySnapshot)
            /\ taskError' = SnapshotError
       ELSE UNCHANGED <<latestTaskSnapshot, taskError>>
    /\ UNCHANGED <<schedVars, sockVars, histVars, currentTaskId, submitDisabled,
                   serverStatus, handlers, channelFetches>>
    /\ UNCHANGED noteVars
    /\ UNCHANGED <<listVars, dedupVars>>
    /\ UNCHANGED <<authVars, probeVars>>

\* The message handler of socket s from the parsed payload on: the snapshot is
\* normalized and shown, and a terminal one starts the final fetches.
WsIngest(s, data) ==
    /\ sockets[s].state = "open"
    /\ LET normalized == normalizeTaskSnapshot(data)
       IN  /\ latestTaskSnapshot' = updateStatusPanel(latestTaskSnapshot, normalized)
           /\ IF isTerminalState(normalized)
              THEN /\ InFlight < MaxInFlight
                   /\ handlers' = handlers (+)
                          OneHandler(Handler("wsFinal", sockets[s].task, 0, s, normalized))
                   /\ finalFetches' = finalFetches + 1
                   /\ terminalSeen' = TRUE
              ELSE UNCHANGED <<handlers, finalFetches, terminalSeen>>
    /\ taskError' = SnapshotError
    /\ UNCHANGED <<schedVars, sockVars, currentTaskId, submitDisabled, serverStatus,
                   terminalCalls, channelFetches>>
    /\ UNCHANGED <<listVars, dedupVars>>
    /\ UNCHANGED noteVars
    /\ UNCHANGED <<authVars, probeVars>>

\* A message event on socket s carrying a snapshot of its task.
WsMessage(s, i) ==
    /\ sockets[s].state = "open"
    /\ i \in 1..serverStatus[sockets[s].task]
    /\ WsIngest(s, ServerRun[i])

\* A message event on socket s carrying the snapshot probe, of any shape a server
\* may send.
WsSnapshot(s) == WsIngest(s, probe)

\* The final files and artifacts fetches of a message handler have both completed.
WsFinalDone(h) ==
    /\ BagIn(h, handlers)
    /\ h.kind = "wsFinal"
    /\ handlers' = handlers (-) OneHandler(h)
    /\ SchedulerBecomes(stopPolling(Scheduler))
    /\ terminalCalls' = terminalCalls + 1
    /\ submitDisabled' = FALSE
    /\ sockets' = closeWebSocket(sockets, activeSocket)
    /\ activeSocket' = 0
    /\ UNCHANGED <<latestTaskSnapshot, currentTaskId, serverStatus, finalFetches,
                   terminalSeen, channelFetches, taskError>>
    /\ UNCHANGED <<listVars, dedupVars>>
    /\ \E failed \in BOOLEAN :
          panelErrors' = IF failed THEN channelErrorSlots(panelErrors, "artifacts")
                         ELSE channelDataSlots(panelErrors, "artifacts")
    /\ UNCHANGED toast
    /\ UNCHANGED <<authVars, probeVars>>

\* The close event of socket s, after close() or when the connection drops: the
\* listener clears the reference.
SocketClosed(s) ==
    /\ sockets[s].state \in {"open", "closing"}
    /\ LET out == onSocketClose(sockets, activeSocket, s)
       IN  /\ sockets' = out.sockets
           /\ activeSocket' = out.activeSocket
    /\ UNCHANGED <<schedVars, histVars, latestTaskSnapshot, currentTaskId, submitDisabled,
                   serverStatus, handlers, channelFetches, taskError>>
    /\ UNCHANGED noteVars
    /\ UNCHANGED <<listVars, dedupVars>>
    /\ UNCHANGED <<authVars, probeVars>>

\* The server's lists at the start: longer than a signature reaches.
InitLists ==
    /\ serverEvents = ServerEvents0
    /\ serverArtifacts = ServerArtifacts0

\* The server's lists at the start of a young task: two events, and one artifact
\* listed twice.
InitShortLists ==
    /\ serverEvents = SubSeq(ServerEvents0, 1, 2)
    /\ serverArtifacts = << Item(1, 101), Item(1, 101) >>

\* After construction: no task, no timer, no socket.
InitSync ==
    /\ pollStartTime = "null"
    /\ pollingIntervals = NoTimers
    /\ timers = {}
    /\ activeSocket = 0
    /\ sockets = [s \in SocketIds |-> [state |-> "none", task |-> 0]]
    /\ latestTaskSnapshot = NullSnapshot
    /\ currentTaskId = 0
    /\ submitDisabled = FALSE
    /\ serverStatus = [t \in TaskIds |-> 1]
    /\ handlers = EmptyBag
    /\ channelFetches = {}
    /\ taskError = ""
    /\ panelErrors = NoPanelErrors
    /\ toast = ""
    /\ moves = 0
    /\ lastEventSignature = NoSignature
    /\ lastArtifactSignature = NoSignature
    /\ lastEventKeys = NoSignature
    /\ lastArtifactKeys = NoSignature
    /\ eventRenders = 0
    /\ artifactRenders = 0
    /\ artifactSkipped = FALSE
    /\ latestArtifactsTotal = NoTotal
    /\ terminalCalls = 0
    /\ finalFetches = 0
    /\ terminalSeen = FALSE

\* ---- the pure functions of the snapshot
NotApplied == [applied |-> "none", terminal |-> FALSE, value |-> 0]

\* Snapshots as a server may send them: terminal labels in several spellings,
\* labels that are not terminal, and progress as a fraction, as a percentage,
\* out of range, or not a number.
ProbeStatuses == {"completed", "Completed", "COMPLETED", "failed", "Failed", "FAILED",
                  "error", "ERROR", "running", "queued", "done", ""}
ProbeStages == {"completed", "Completed", "COMPLETED", "coding", ""}
ProbeProgress == {<< >>, <<0 - 50>>, <<0>>, <<55>>, <<99>>, <<100>>, <<101>>, <<150>>,
                  <<5500>>, <<9999>>, <<10000>>, <<10001>>, <<25000>>}
Snapshots == [status : ProbeStatuses, current_stage : ProbeStages, progress : ProbeProgress]

\* isTerminalState(probe) is evaluated.
ApplyIsTerminalState ==
    /\ probeOut = NotApplied
    /\ probeOut' = [applied |-> "isTerminalState", terminal |-> isTerminalState(probe),
                    value |-> 0]
    /\ UNCHANGED probe
    /\ UNCHANGED <<authVars, syncVars>>

\* formatProgress(probe.progress) is evaluated.
ApplyFormatProgress ==
    /\ probeOut = NotApplied
    /\ probeOut' = [applied |-> "formatProgress", terminal |-> FALSE,
                    value |-> formatProgress(probe.progress)]
    /\ UNCHANGED probe
    /\ UNCHANGED <<authVars, syncVars>>

\* The terminal messages followed in one session.
MaxFinalFetches == 2

\* normalizeTaskSnapshot(probe) is evaluated, and isTerminalState of the result.
ApplyNormalizeTaskSnapshot ==
    /\ probeOut = NotApplied
    /\ probeOut' = [applied |-> "normalizeTaskSnapshot",
                    terminal |-> isTerminalState(normalizeTaskSnapshot(probe)),
                    value |-> formatProgress(normalizeTaskSnapshot(probe).progress),
                    snapshot |-> normalizeTaskSnapshot(probe)]
    /\ UNCHANGED probe
    /\ UNCHANGED <<authVars, syncVars>>

NextProbe ==
    \/ ApplyIsTerminalState
    \/ ApplyFormatProgress

\* One session whose connection delivers the snapshot probe, and the pure
\* functions applied to it.
NextIngest ==
    \/ currentTaskId = 0 /\ ActivateTask(1, "load", FALSE)
    \/ \E s \in SocketIds : finalFetches < MaxFinalFetches /\ WsSnapshot(s)
    \/ \E h \in BagToSet(handlers) : WsFinalDone(h)
    \/ ApplyNormalizeTaskSnapshot
    \/ ApplyIsTerminalState

InitProbe ==
    /\ probe = NullSnapshot
    /\ probeOut = NotApplied

HandlerRuns ==
    { Handler(k, t, i, s, n) :
        k \in {"poll", "pollFinal", "wsFinal"}, t \in TaskIds, i \in 0..Len(ServerRun),
        s \in {0} \cup SocketIds,
        n \in {NullSnapshot} \cup {normalizeTaskSnapshot(ServerRun[j]) : j \in 1..Len(ServerRun)} }

ActivationKinds == {"load", "open", "submit"}

\* One task session: the status channel and the push channel up to the task's end.
\* Of the server's tasks, the one the client watches is followed.
NextSync ==
    \/ \E t \in TaskIds, how \in ActivationKinds, wsThrows \in BOOLEAN :
          currentTaskId = 0 /\ ActivateTask(t, how, wsThrows)
    \/ \E t \in TaskIds : t = currentTaskId /\ ServerAdvance(t)
    \/ TimePasses
    \/ \E x \in timers : StatusTick(x)
    \/ \E h \in BagToSet(handlers), status \in ErrorStatuses : PollError(h, status)
    \/ \E h \in BagToSet(handlers), i \in 1..Len(ServerRun) : PollData(h, i)
    \/ \E h \in BagToSet(handlers) : PollFinalDone(h)
    \/ \E s \in SocketIds, kind \in MalformedPayloads : WsMalformed(s, kind)
    \/ \E s \in SocketIds, i \in 1..Len(ServerRun) : WsMessage(s, i)
    \/ \E h \in BagToSet(handlers) : WsFinalDone(h)
    \/ \E s \in SocketIds : SocketClosed(s)

\* The sessions of a user who activates one task after another: the scheduler and
\* the push connection, the tasks still queued.
NextSession ==
    \/ \E t \in TaskIds, how \in ActivationKinds, wsThrows \in BOOLEAN :
          ActivateTask(t, how, wsThrows)
    \/ SubmitStart
    \/ \E t \in TaskIds : IntakeCreate(t)
    \/ ResumePolling
    \/ RefreshStatus
    \/ TimePasses
    \/ \E x \in timers : StatusTick(x)
    \/ \E h \in BagToSet(handlers), status \in ErrorStatuses : PollError(h, status)
    \/ \E h \in BagToSet(handlers), i \in 1..Len(ServerRun) : PollData(h, i)
    \/ \E s \in SocketIds, i \in 1..Len(ServerRun) : WsMessage(s, i)
    \/ \E s \in SocketIds : SocketClosed(s)

\* The push connection over activations, with the user changing the credential
\* in between.
NextPush ==
    \/ \E t \in TaskIds, how \in ActivationKinds, wsThrows \in BOOLEAN :
          ActivateTask(t, how, wsThrows)
    \/ \E value \in RawApiKeys : SaveApiKey(value)
    \/ \E value \in RawTokens : SaveAccessToken(value)
    \/ Logout
    \/ \E s \in SocketIds : SocketClosed(s)

\* A user who activates a task while the last one is ending: the terminal snapshot
\* of a task, its final fetches, and the activation of the next task in between.
NextHandover ==
    \/ \E t \in TaskIds : t # currentTaskId /\ ActivateTask(t, "load", FALSE)
    \/ \E t \in TaskIds : ServerAdvance(t)
    \/ \E h \in BagToSet(handlers), i \in 1..Len(ServerRun) : PollData(h, i)
    \/ \E h \in BagToSet(handlers) : PollFinalDone(h)
    \/ \E s \in SocketIds, i \in 1..Len(ServerRun) :
          finalFetches < MaxFinalFetches /\ WsMessage(s, i)
    \/ \E h \in BagToSet(handlers) : WsFinalDone(h)
    \/ \E s \in SocketIds : SocketClosed(s)

\* One task session, every channel of the scheduler: the first task is loaded.
NextChannels ==
    \/ currentTaskId = 0 /\ ActivateTask(1, "load", FALSE)
    \/ RefreshStatus
    \/ TimePasses
    \/ \E x \in timers : StatusTick(x)
    \/ \E x \in timers : ChannelTick(x)
    \/ \E f \in channelFetches, more \in BOOLEAN : ChannelError(f, more)
    \/ \E f \in channelFetches, more \in BOOLEAN : ChannelData(f, more)
    \/ \E f \in channelFetches, more \in BOOLEAN : EventsData(f, more)
    \/ \E f \in channelFetches, more \in BOOLEAN : ArtifactsData(f, more)
    \/ \E h \in BagToSet(handlers), status \in ErrorStatuses : PollError(h, status)
    \/ \E h \in BagToSet(handlers), i \in 1..Len(ServerRun) : PollData(h, i)

\* One task session, the two list channels, against a server whose lists change:
\* an item changes places with the next one.
NextDedup ==
    \/ \E t \in TaskIds, how \in ActivationKinds, wsThrows \in BOOLEAN :
          currentTaskId = 0 /\ ActivateTask(t, how, wsThrows)
    \/ \E x \in timers : x.channel \in {"events", "artifacts"} /\ ChannelTick(x)
    \/ \E f \in channelFetches, more \in BOOLEAN :
          f.channel \in {"events", "artifacts"} /\ ChannelError(f, more)
    \/ \E f \in channelFetches, more \in BOOLEAN : EventsData(f, more)
    \/ \E f \in channelFetches, more \in BOOLEAN : ArtifactsData(f, more)
    \/ \E i \in 1..(Len(serverEvents) - 1) : ServerEventsMove(i, i + 1)
    \/ \E i \in 1..(Len(serverArtifacts) - 1) : ServerArtifactsMove(i, i + 1)
    \/ ServerArtifactsAppend

\* ---------------------------------------------- SyncCoordinator: claims
\* C3: within one session handleTerminalState is invoked at most once, whichever
\* of the push handler and pollTask ingest the terminal snapshot, and in whatever
\* order.
C3_TerminalNotifiedOnce == terminalCalls <= 1

\* C4: once a terminal snapshot has been ingested in a session, no later ingest,
\* from a poll response or a push message, changes latestTaskSnapshot.
C4_IgnoredAfterTerminal ==
    [][terminalSeen /\ terminalSeen' => latestTaskSnapshot' = latestTaskSnapshot]_vars

\* C5: in one session the final fetch of the file index and the artifact list
\* (Promise.all([pollFiles, pollArtifacts]) of terminal handling) is issued at
\* most once.
C5_OneFinalFetch == finalFetches <= 1

\* C6: once terminal handling has run to its end, from a poll response or from a
\* push message, no timer is active and no push connection is open or referenced.
C6_StoppedAndClosed ==
    terminalCalls >= 1 =>
        /\ timers = {}
        /\ pollingIntervals = NoTimers
        /\ activeSocket = 0
        /\ \A s \in SocketIds : sockets[s].state # "open"

\* C13: at most one push connection is open, and an open connection is the one
\* activeSocket references (so that closeWebSocket can close it).
C13_OneOpenSocket ==
    /\ Cardinality({s \in SocketIds : sockets[s].state = "open"}) <= 1
    /\ \A s \in SocketIds : sockets[s].state = "open" => activeSocket = s

C15_StopIdempotent ==
    LET once == stopPolling(Scheduler)
        never == [pollStartTime |-> "null", pollingIntervals |-> NoTimers, timers |-> {}]
    IN  /\ once.timers = {}
        /\ once.pollingIntervals = NoTimers
        /\ stopPolling(once) = once
        /\ stopPolling(never) = never

\* Terminal handling ran twice in the session, stopPolling twice in a row.
C15_Witness ==
    /\ terminalCalls = 2
    /\ timers = {}
    /\ pollingIntervals = NoTimers
    /\ pollStartTime = "null"

\* C16: a pollTask that begins more than POLL_TIMEOUT_MS after the start instant,
\* from the status timer or from refreshStatus, issues no status request, leaves no
\* timer and no handle, and shows the timeout error; while the timeout error is
\* shown no timer is active, and running timers always have their start instant.
C16_TimeoutStops ==
    [][/\ (pollStartTime = "expired" /\ ((\E x \in timers : StatusTick(x)) \/ RefreshStatus))
            => /\ handlers' = handlers
               /\ timers' = {}
               /\ pollingIntervals' = NoTimers
               /\ taskError' = "timeout"
       /\ taskError' = "timeout" => timers' = {}
       /\ timers' # {} => pollStartTime' # "null"]_vars

\* The session timed out after every channel had been polled by its timer.
C16_Witness ==
    /\ taskError = "timeout"
    /\ currentTaskId # 0
    /\ timers = {}
    /\ pollStartTime = "null"
    /\ channelFetches = {}

\* C17: a 404 answer to the status fetch leaves no timer active, no push
\* connection open and the submit button enabled.
C17_NotFoundStopsAll ==
    [][\A h \in BagToSet(handlers) :
          PollError(h, 404) =>
              /\ timers' = {}
              /\ \A s \in SocketIds : sockets'[s].state # "open"
              /\ ~submitDisabled']_vars

\* C18: an error result of the state, events, artifacts or files fetch, and an
\* error of the status fetch other than 404, leave the timers, their handles, the
\* start instant and the push connection as they were.
C18_SoftErrorsKeepChannels ==
    [][((\E f \in channelFetches, more \in BOOLEAN : ChannelError(f, more))
        \/ (\E h \in BagToSet(handlers), status \in ErrorStatuses \ {404} : PollError(h, status)))
          => UNCHANGED <<pollStartTime, pollingIntervals, timers, activeSocket, sockets>>]_vars

\* A status fetch failed softly; the five timers and the push connection live on.
C18_Witness ==
    /\ taskError = "error"
    /\ Cardinality(timers) = 5
    /\ pollStartTime = "fresh"
    /\ activeSocket # 0
    /\ sockets[activeSocket].state = "open"

\* C19: before a terminal snapshot is ingested, every ingest from a poll response
\* or a push message leaves latestTaskSnapshot equal to the normalization of the
\* snapshot that just arrived, older than the one shown or not.
C19_LastArrivedShown ==
    [][\A i \in 1..Len(ServerRun) :
          (~terminalSeen /\ ((\E h \in BagToSet(handlers) : PollData(h, i))
                             \/ (\E s \in SocketIds : WsMessage(s, i))))
             => latestTaskSnapshot' = normalizeTaskSnapshot(ServerRun[i])]_vars

\* The queued snapshot is shown although the server is already running the task:
\* a snapshot older than the server's state arrived last.
C19_Witness ==
    /\ currentTaskId # 0
    /\ ~terminalSeen
    /\ serverStatus[currentTaskId] = 2
    /\ latestTaskSnapshot = normalizeTaskSnapshot(ServerRun[1])
    /\ handlers = EmptyBag

\* C20: on a successful fetch of the events or artifacts list the consumer is
\* notified (renderEvents, renderArtifacts) exactly once if the ordered list of
\* item keys differs from the one of the session's previous fetch, wherever in the
\* list the difference is, and not at all if it is the same.
C20_NotifiedIffKeysDiffer ==
    [][\A f \in channelFetches, more \in BOOLEAN :
          /\ EventsData(f, more) =>
                eventRenders' = IF KeyList(EventKeys(serverEvents)) = lastEventKeys
                                THEN eventRenders ELSE eventRenders + 1
          /\ ArtifactsData(f, more) =>
                artifactRenders' =
                    IF KeyList(ArtifactKeys(dedupeArtifacts(serverArtifacts))) = lastArtifactKeys
                    THEN artifactRenders ELSE artifactRenders + 1]_vars

\* C21: every successful artifacts fetch sets latestArtifactsTotal to the number of
\* artifacts of that fetch, duplicates removed, also when its signature is the
\* previous one and renderArtifacts is skipped.
C21_TotalAlwaysUpdated ==
    [][\A f \in channelFetches, more \in BOOLEAN :
          ArtifactsData(f, more) =>
              latestArtifactsTotal' = Len(dedupeArtifacts(serverArtifacts))]_vars

\* The list grew beyond the signature's reach: the second fetch was not rendered,
\* and the total is the new count.
C21_Witness ==
    /\ moves = 1
    /\ artifactRenders = 1
    /\ artifactSkipped
    /\ Len(serverArtifacts) = Len(ServerArtifacts0) + 1
    /\ lastArtifactKeys = KeyList(ArtifactKeys(dedupeArtifacts(serverArtifacts)))
    /\ latestArtifactsTotal = Len(dedupeArtifacts(ServerArtifacts0)) + 1

\* C24: isTerminalState is true for a snapshot whose status is completed, failed
\* or error in any letter case, true for a snapshot whose normalized progress is
\* 1.0 and whose stage is "completed" in any letter case whatever its status, and
\* false for every other snapshot.
C24_TerminalExactly ==
    probeOut.applied = "isTerminalState" =>
        LET knownTerminal ==
                probe.status \in {"completed", "Completed", "COMPLETED", "failed", "Failed",
                                  "FAILED", "error", "ERROR"}
            progressIsOne ==
                /\ probe.progress # << >>
                /\ (probe.progress[1] = 100 \/ probe.progress[1] >= 10000)
            stageCompleted == probe.current_stage \in {"completed", "Completed", "COMPLETED"}
        IN  probeOut.terminal = (knownTerminal \/ (progressIsOne /\ stageCompleted))

\* A snapshot with an unrecognized status is terminal by progress 100 and stage.
C24_Witness ==
    /\ probeOut.applied = "isTerminalState"
    /\ probe.status = "done"
    /\ probe.progress = <<10000>>
    /\ probe.current_stage = "Completed"
    /\ probeOut.terminal

\* C25: formatProgress gives a value in [0, 1] for every input, 0 for a negative
\* number and for what is not a number, 1 from 100 on; a value above 1 is divided
\* by 100, a value up to 1 is kept: 55 gives 0.55 and 0.55 gives 0.55.
C25_NormalizedInUnitInterval ==
    probeOut.applied = "formatProgress" =>
        /\ probeOut.value >= 0 /\ probeOut.value <= One
        /\ probe.progress = << >> => probeOut.value = 0
        /\ probe.progress = <<5500>> => probeOut.value * 100 = 55 * One
        /\ probe.progress = <<55>> => probeOut.value * 100 = 55 * One
        /\ probe.progress # << >> =>
              LET n == probe.progress[1]
              IN  /\ n < 0 => probeOut.value = 0
                  /\ (n >= 0 /\ n <= 100) => probeOut.value * 100 = n * One
                  /\ (n > 100 /\ n <= 10000) => probeOut.value * 10000 = n * One
                  /\ n > 10000 => probeOut.value = One

\* The percentage 55 was normalized to 0.55.
C25_Witness ==
    /\ probeOut.applied = "formatProgress"
    /\ probe.progress = <<5500>>
    /\ probeOut.value = 5500

\* C26: a push message that carries no snapshot (empty data, text that is not
\* JSON, JSON that is not an object) changes nothing: the last-known snapshot, the
\* scheduler, the connection, the error slots and the notification stay as they
\* were.
C26_MalformedDiscarded ==
    [][\A s \in SocketIds, kind \in MalformedPayloads :
          WsMalformed(s, kind) =>
              UNCHANGED <<latestTaskSnapshot, pollStartTime, pollingIntervals, timers,
                          activeSocket, sockets, taskError, panelErrors, toast>>]_vars

\* C27: startWebSocket creates a socket only with a usable credential, an access
\* token in auth or hybrid mode or a stored API key in apikey or hybrid mode;
\* without one an activation creates no socket, and the connection the client
\* held before is closed and no longer referenced.
C27_SocketOnlyWithCredential ==
    [][LET usable ==
               \/ (authMode \in {AUTH_MODE_AUTH, AUTH_MODE_HYBRID} /\ inMemoryAccessToken # "")
               \/ (authMode \in {AUTH_MODE_APIKEY, AUTH_MODE_HYBRID} /\ lsApiKey # "")
           created == {s \in SocketIds : sockets[s].state = "none" /\ sockets'[s].state # "none"}
       IN  /\ created # {} => usable
           /\ (currentTaskId' # currentTaskId \/ timers' # timers) /\ ~usable =>
                  /\ created = {}
                  /\ activeSocket' = 0
                  /\ activeSocket # 0 => sockets'[activeSocket].state = "closing"]_vars

\* Task 2 was activated after the API key had been cleared: the connection of
\* task 1 was closed and none was created.
C27_Witness ==
    /\ currentTaskId = 2
    /\ \A x \in timers : x.task = 2
    /\ timers # {}
    /\ sockets[1].state = "closing" /\ sockets[1].task = 1
    /\ sockets[2].state = "none"
    /\ activeSocket = 0
    /\ authMode = AUTH_MODE_APIKEY /\ lsApiKey = ""

\* C28: whenever polling is started, the start instant is recorded, a status
\* fetch and a fetch of each of the four other channels are issued in the same
\* run, before any of the new timers can fire, and exactly five repeating timers
\* are set for the task: status and state every 2000 ms, events, artifacts and
\* files every 4000 ms.
C28_ImmediateFetchesThenTimers ==
    [][(\/ \E t \in TaskIds, how \in ActivationKinds, wsThrows \in BOOLEAN :
              ActivateTask(t, how, wsThrows)
        \/ ResumePolling
        \/ (timers' # timers /\ timers' # {})) =>
          LET t == currentTaskId'
              h == Handler("poll", t, serverStatus[t], 0, NullSnapshot)
          IN  /\ pollStartTime' = "fresh"
              /\ CopiesIn(h, handlers') = CopiesIn(h, handlers) + 1
              /\ BagCardinality(handlers') = BagCardinality(handlers) + 1
              /\ AllSideFetches(t) \subseteq channelFetches'
              /\ Cardinality(timers') = 5
              /\ {[channel |-> x.channel, task |-> x.task, interval |-> x.interval] :
                     x \in timers'}
                 = {[channel |-> c, task |-> t,
                     interval |-> IF c \in {"status", "state"} THEN 2000 ELSE 4000] :
                        c \in Channels}]_vars

\* Polling of task 1 has just started: the five fetches are in flight and the
\* five timers are set, none of which has fired.
C28_Witness ==
    /\ currentTaskId = 1
    /\ pollStartTime = "fresh"
    /\ handlers = OneHandler(Handler("poll", 1, serverStatus[1], 0, NullSnapshot))
    /\ channelFetches = AllSideFetches(1)
    /\ {x.channel : x \in {y \in timers : y.interval = 2000}} = {"status", "state"}
    /\ {x.channel : x \in {y \in timers : y.interval = 4000}} = {"events", "artifacts", "files"}

\* C30: every error result of a fetch, on the status channel and on the state,
\* events, artifacts and files channels, shows a toast with the error.
C30_ErrorsAlwaysToast ==
    [][/\ \A h \in BagToSet(handlers), status \in ErrorStatuses :
              PollError(h, status) => toast' = ErrorText(status)
       /\ \A f \in channelFetches, more \in BOOLEAN :
              ChannelError(f, more) => toast' = "error"]_vars

\* C31: within a session the normalized progress of latestTaskSnapshot never
\* decreases from one ingested snapshot to the next, from a poll response or a
\* push message, in whatever order they arrive.
C31_ProgressMonotonic ==
    [][((\E h \in BagToSet(handlers), i \in 1..Len(ServerRun) : PollData(h, i))
        \/ (\E s \in SocketIds, i \in 1..Len(ServerRun) : WsMessage(s, i)))
          => formatProgress(latestTaskSnapshot'.progress)
                >= formatProgress(latestTaskSnapshot.progress)]_vars

\* C32: the close event of a socket opens no socket and leaves the scheduler and
\* the fetches in flight as they are; a socket is created by the activation of a
\* task only.
C32_NoReconnect ==
    [][LET created == {s \in SocketIds : sockets[s].state = "none" /\ sockets'[s].state # "none"}
       IN  /\ (\E s \in SocketIds : SocketClosed(s)) =>
                  /\ created = {}
                  /\ UNCHANGED <<pollStartTime, pollingIntervals, timers, handlers,
                                 channelFetches, currentTaskId>>
           /\ created # {} =>
                  \E t \in TaskIds, how \in ActivationKinds, wsThrows \in BOOLEAN :
                      ActivateTask(t, how, wsThrows)]_vars

\* The connection of the session dropped: no other socket was opened, and the
\* five timers go on with a status fetch in flight.
C32_Witness ==
    /\ sockets[1].state = "closed"
    /\ \A s \in SocketIds \ {1} : sockets[s].state = "none"
    /\ activeSocket = 0
    /\ currentTaskId # 0
    /\ Cardinality(timers) = 5
    /\ pollStartTime = "fresh"
    /\ InFlight >= 2

\* C33: the terminal handling of a task that is no longer the active one (its
\* final files/artifacts fetch ends after another task was activated) does not
\* cancel the timers of the new session, does not close its connection and
\* does not run the terminal notification.
C33_StaleTerminalHarmless ==
    [][\A h \in BagToSet(handlers) :
          ((PollFinalDone(h) \/ WsFinalDone(h)) /\ h.task # currentTaskId)
              => UNCHANGED <<timers, pollingIntervals, pollStartTime, sockets,
                             activeSocket, terminalCalls>>]_vars

\* C34: latestTaskSnapshot is written from the responses and messages of the
\* task that is active only: a status response or a push message of another task
\* leaves it as it is.
C34_OnlyActiveTaskWrites ==
    [][/\ \A h \in BagToSet(handlers), i \in 1..Len(ServerRun) :
             (PollData(h, i) /\ h.task # currentTaskId) => UNCHANGED latestTaskSnapshot
       /\ \A s \in SocketIds, i \in 1..Len(ServerRun) :
             (WsMessage(s, i) /\ sockets[s].task # currentTaskId)
                 => UNCHANGED latestTaskSnapshot]_vars

\* C35: once logout has run, with no login, registration or manual save since,
\* the access token and the refresh token stay empty: a refresh that settles
\* afterwards installs nothing.
C35_LogoutStaysLoggedOut ==
    [][(/\ storeLog # << >>
        /\ storeLog[Len(storeLog)] = "logout"
        /\ \E resp \in RefreshResponses : RefreshSettle(1, resp))
          => /\ inMemoryAccessToken' = ""
             /\ lsAccess' = ""
             /\ lsRefresh' = ""]_vars

\* C36: a session whose five timers run reaches, with no further action of the
\* user, a state with no timer: through a terminal snapshot, a 404 or the timeout,
\* even when every status fetch fails with another error.
C36_TimersEventuallyCancelled ==
    (Cardinality(timers) = 5) ~> (timers = {} /\ pollingIntervals = NoTimers)

\* The timeout ended a session in which no snapshot was ever shown.
C36_Witness ==
    /\ currentTaskId # 0
    /\ timers = {}
    /\ pollingIntervals = NoTimers
    /\ taskError = "timeout"
    /\ ~terminalSeen
    /\ latestTaskSnapshot = NullSnapshot

\* C37: the five timer handles are set together and cleared together, and while
\* a timer is set the poll start instant is recorded.
C37_HandlesAllOrNothing ==
    /\ \/ \A c \in Channels : pollingIntervals[c] = 0
       \/ \A c \in Channels : pollingIntervals[c] # 0
    /\ (\E c \in Channels : pollingIntervals[c] # 0) => pollStartTime # "null"
    /\ timers # {} => pollStartTime # "null"

\* The five timers of a session run, past the timeout and not yet stopped, with
\* the start instant still recorded.
C37_Witness ==
    /\ \A c \in Channels : pollingIntervals[c] # 0
    /\ Cardinality(timers) = 5
    /\ pollStartTime = "expired"
    /\ taskError # "timeout"

\* C38: a last-known snapshot whose status is terminal has normalized progress
\* 1.0, whatever progress the server sent.
C38_TerminalShownComplete ==
    ToLower(latestTaskSnapshot.status) \in TERMINAL_STATUSES
        => formatProgress(latestTaskSnapshot.progress) = One

\* C39: normalizeTaskSnapshot is idempotent and keeps the terminal decision:
\* normalizing the normalized snapshot changes nothing, and isTerminalState is the
\* same for a snapshot and for its normalization.
C39_NormalizeIdempotent ==
    probeOut.applied = "normalizeTaskSnapshot"
        => /\ normalizeTaskSnapshot(probeOut.snapshot) = probeOut.snapshot
           /\ updateStatusPanel(NullSnapshot, probeOut.snapshot) = probeOut.snapshot
           /\ probeOut.terminal = isTerminalState(probe)

\* A failed snapshot without progress and with the stage 'completed' was
\* normalized: progress and stage were both rewritten, and it is terminal.
C39_Witness ==
    /\ probeOut.applied = "normalizeTaskSnapshot"
    /\ probe.status = "Failed"
    /\ probe.progress = << >>
    /\ probe.current_stage = "completed"
    /\ probeOut.snapshot # probe
    /\ probeOut.terminal

\* C40: a call to an auth endpoint never starts or joins a refresh and is sent
\* once, its 401 going back to the caller; and the answer of the refresh endpoint,
\* whatever it is, starts no refresh.
C40_AuthCallsNeverRefresh ==
    [][/\ \A r \in Requests :
             (FetchStartRefresh(r) \/ FetchJoinRefresh(r)) => req[r].url \notin AuthEndpoints
       /\ \A r \in Requests :
             req'[r].url \in AuthEndpoints
                 => /\ req'[r].pc # "awaitRefresh"
                    /\ req'[r].sends <= 1
                    /\ (req[r].pc = "fetching" /\ req'[r].pc = "done"
                           => UNCHANGED <<refreshCalls, refreshOps, refreshPromise>>)
       /\ (\E k \in Requests, resp \in RefreshResponses : RefreshSettle(k, resp))
             => /\ refreshCalls' = refreshCalls
                /\ refreshOps' \subseteq refreshOps]_vars

\* The session validation of a signed-in user was answered 401, which went back
\* to validateAuthSession with no refresh ever started.
C40_Witness ==
    \E r \in Requests :
        /\ req[r].url = "me"
        /\ req[r].pc = "done"
        /\ req[r].result = "response"
        /\ req[r].status = 401
        /\ req[r].sends = 1
        /\ isAuthEnabled
        /\ inMemoryAccessToken # ""
        /\ refreshCalls = 0

\* ------------------------------------------------------- specifications
\* The request client alone, no task active.
InitRequests ==
    /\ InitAuth
    /\ InitSync
    /\ InitLists
    /\ InitProbe

SpecAuth == InitRequests /\ [][NextAuth]_vars

SpecAuthCalls == InitRequests /\ [][NextAuthCalls]_vars

\* One task session, with a credential in place and no request client activity.
InitSession ==
    /\ InitAuth
    /\ lsRefresh = ""
    /\ InitSync
    /\ InitLists
    /\ InitProbe

SpecSync == InitSession /\ [][NextSync]_vars


\* Task after task, with the API key of apikey mode as the socket credential.
InitSessions ==
    /\ InitAuth
    /\ authMode = AUTH_MODE_APIKEY
    /\ lsAccess = ""
    /\ lsRefresh = ""
    /\ InitSync
    /\ InitLists
    /\ InitProbe

SpecSession == InitSessions /\ [][NextSession]_vars

\* One session with the API key as the socket credential.
InitChannels ==
    /\ InitAuth
    /\ authMode = AUTH_MODE_APIKEY
    /\ lsAccess = "" /\ lsRefresh = "" /\ lsApiKey = "K"
    /\ InitSync
    /\ InitShortLists
    /\ InitProbe

SpecChannels == InitChannels /\ [][NextChannels]_vars

\* A response, an error or the end of the final fetches of some run in flight.
Settles ==
    \/ \E h \in BagToSet(handlers), status \in ErrorStatuses : PollError(h, status)
    \/ \E h \in BagToSet(handlers), i \in 1..Len(ServerRun) : PollData(h, i)
    \/ \E h \in BagToSet(handlers) : PollFinalDone(h)
    \/ \E h \in BagToSet(handlers) : WsFinalDone(h)

\* One task session from its activation on, the user doing nothing more.
NextUnattended ==
    \/ \E t \in TaskIds, wsThrows \in BOOLEAN :
          currentTaskId = 0 /\ ActivateTask(t, "load", wsThrows)
    \/ \E t \in TaskIds : t = currentTaskId /\ ServerAdvance(t)
    \/ TimePasses
    \/ \E x \in timers : StatusTick(x)
    \/ Settles
    \/ \E s \in SocketIds, i \in 1..Len(ServerRun) : WsMessage(s, i)
    \/ \E s \in SocketIds : SocketClosed(s)

\* That session when time advances, the status timer keeps firing while it is
\* set, and every fetch is answered or fails.
SpecUnattended ==
    /\ InitChannels
    /\ [][NextUnattended]_vars
    /\ WF_vars(TimePasses)
    /\ WF_vars(\E x \in timers : StatusTick(x))
    /\ WF_vars(Settles)

SpecDedup == InitSessions /\ [][NextDedup]_vars

\* Task after task, the API key in place, each task running to its end.
SpecHandover == InitChannels /\ [][NextHandover]_vars

\* The credential store of a browser that holds no access token yet.
InitStore ==
    /\ InitAuth
    /\ lsAccess = ""
    /\ InitSync
    /\ InitLists
    /\ InitProbe

SpecStore == InitStore /\ [][NextStore]_vars

\* The credential store up to a logout and after it.
InitLogout ==
    /\ InitStore
    /\ ~storageBlocked

SpecLogout == InitLogout /\ [][NextLogout]_vars

\* Sessions of a user in any mode, with or without credentials.
SpecPush == InitSession /\ [][NextPush]_vars

\* isTerminalState and formatProgress applied to the snapshots a server may send.
InitSnapshots ==
    /\ InitAuth
    /\ authMode = AUTH_MODE_APIKEY
    /\ lsAccess = "" /\ lsRefresh = "" /\ lsApiKey = ""
    /\ InitSync
    /\ InitLists
    /\ probe \in Snapshots
    /\ probeOut = NotApplied

SpecSnapshots == InitSnapshots /\ [][NextProbe]_vars

\* A session with the API key in place whose server sends the snapshot probe.
InitIngest ==
    /\ InitAuth
    /\ authMode = AUTH_MODE_APIKEY
    /\ lsAccess = "" /\ lsRefresh = "" /\ lsApiKey = "K"
    /\ ~storageBlocked
    /\ InitSync
    /\ InitShortLists
    /\ probe \in Snapshots
    /\ probeOut = NotApplied

SpecIngest == InitIngest /\ [][NextIngest]_vars

====
